---- MODULE Spec2Model ----
(***************************************************************************)
(* The stepwise EVM Machine of evm_loader (executor.rs) and the host       *)
(* instructions that drive it (entrypoint.rs): call_begin / create_begin,  *)
(* the execute_n_steps loop with its Call / Create / Exit interrupts, the  *)
(* journaled substate, the storage-account snapshot between slices and     *)
(* the application of a terminated transaction to the host accounts.       *)
(*                                                                         *)
(* Contract code is abstracted to short programs over the opcodes that     *)
(* matter to the Machine: NOP, SSTORE, LOG, CALL, SCALL (STATICCALL),      *)
(* CREATE, STOP, RETURN, REVERT, INVALID, FATAL.                           *)
(***************************************************************************)
EXTENDS Integers, Sequences, FiniteSets, TLC

\* ------------------------------------------------------------------ bounds
\* Largest step_count a host instruction carries.
MaxStepCount == 3
\* evm::Config::call_stack_limit, scaled down from 1024.
call_stack_limit == 2
\* evm::Config::create_contract_limit, scaled down from 0x6000 bytes.
create_contract_limit == 2
\* Cap on the caller's stored transaction count.
MaxTrxCount == 1

\* u64::max_value(), the budget execute() hands to execute_n_steps; any
\* number above every step count the programs below can reach.
U64_MAX == 1000000

\* --------------------------------------------------------------- addresses
ZeroAddress == 0
Caller == 1
Contract == 2
Callee == 3
Created == {4, 5}
Addr == {Caller, Contract, Callee} \cup Created

\* ---------------------------------------------------------------- programs
Op(o, a) == [op |-> o, a |-> a]

OpNames == << "NOP", "SSTORE", "LOG", "CALL", "SCALL", "CREATE",
              "STOP", "RETURN", "REVERT", "INVALID", "FATAL" >>

\* The code menu: contract code, init code and returned data are all drawn
\* from it by index; index 0 is the empty byte string.
Progs == <<
  << Op("SSTORE", 1), Op("CALL", Callee), Op("SSTORE", 2), Op("STOP", 0) >>,
  << Op("SSTORE", 3), Op("LOG", 1), Op("REVERT", 0) >>,
  << Op("SSTORE", 3), Op("LOG", 1), Op("RETURN", 7) >>,
  << Op("SCALL", Callee), Op("NOP", 0), Op("RETURN", 0) >>,
  << Op("CREATE", 3), Op("NOP", 0), Op("STOP", 0) >>,
  << Op("CREATE", 8), Op("LOG", 2) >>,
  << Op("STOP", 0) >>,
  << Op("SSTORE", 4), Op("RETURN", 1) >>,
  << Op("SSTORE", 5), Op("INVALID", 0) >>,
  << Op("LOG", 3), Op("FATAL", 0) >>,
  << Op("CALL", Contract), Op("NOP", 0) >>,
  << Op("CALL", Callee), Op("CREATE", 9) >>
>>

ProgIds == 1..Len(Progs)
Prog(k) == IF k = 0 THEN <<>> ELSE Progs[k]

\* Code an account may hold before the transaction, per address.
ContractCodes == {1, 2, 4, 5, 6, 9, 11, 12}
CalleeCodes == {2, 3, 7, 9, 10, 11}
CreatedCodes == {0, 7}
\* Nonce an address a CREATE may target holds before the transaction.
CreatedNonces == {0, 1}
\* Init code a top-level create may carry.
InitCodes == {3, 5, 8, 9}

\* -------------------------------------------------------------- ExitReason
Succeeds == {"Stopped", "Returned", "Suicided"}
Errors == {"StackUnderflow", "StackOverflow", "InvalidJump", "InvalidRange",
           "DesignatedInvalid", "CallTooDeep", "CreateCollision",
           "CreateContractLimit", "OutOfOffset", "OutOfGas", "OutOfFund",
           "PCUnderflow", "CreateEmpty"}
Fatals == {"NotSupported", "UnhandledInterrupt", "CallErrorAsFatal"}

is_succeed(reason) == reason \in Succeeds
is_revert(reason) == reason = "Revert"
is_error(reason) == reason \in Errors
is_fatal(reason) == reason \in Fatals

\* ------------------------------------------------- journaled substate (4.B)
\* A substate is a stack of logs, the root log first.  Each log keeps its
\* effects in emission order.
Effect(k, addr, v) == [k |-> k, addr |-> addr, v |-> v]

EmptyLog(is_static) == [is_static |-> is_static, journal |-> <<>>]

substate_new == << EmptyLog(FALSE) >>

Top(sub) == sub[Len(sub)]

\* Number of logs entered above the root log.
depth(sub) == Len(sub) - 1

\* metadata().depth(): None (-1 here) on the root log, Some(0) on the first
\* entered log, one more on each log entered above it.
metadata_depth(sub) == Len(sub) - 2

enter(sub, is_static) == Append(sub, EmptyLog(is_static \/ Top(sub).is_static))

record(sub, e) == [sub EXCEPT ![Len(sub)].journal = Append(@, e)]

\* exit_commit as it would be if the exited log's effects were put in front
\* of the parent's instead of after them.
exit_commit_child_first(sub) ==
  IF depth(sub) = 0 THEN [ok |-> FALSE, sub |-> sub]
  ELSE [ok |-> TRUE,
        sub |-> [SubSeq(sub, 1, Len(sub) - 1) EXCEPT
                   ![Len(sub) - 1].journal = Top(sub).journal \o @]]

exit_commit(sub) ==
  IF depth(sub) = 0 THEN [ok |-> FALSE, sub |-> sub]
  ELSE [ok |-> TRUE,
        sub |-> [SubSeq(sub, 1, Len(sub) - 1) EXCEPT
                   ![Len(sub) - 1].journal = @ \o Top(sub).journal]]

exit_revert(sub) ==
  IF depth(sub) = 0 THEN [ok |-> FALSE, sub |-> sub]
  ELSE [ok |-> TRUE, sub |-> SubSeq(sub, 1, Len(sub) - 1)]

exit_discard(sub) ==
  IF depth(sub) = 0 THEN [ok |-> FALSE, sub |-> sub]
  ELSE [ok |-> TRUE, sub |-> SubSeq(sub, 1, Len(sub) - 1)]

RECURSIVE Flatten(_)
Flatten(sub) ==
  IF sub = <<>> THEN <<>> ELSE Head(sub).journal \o Flatten(Tail(sub))

\* All effects of the transaction so far, oldest first.
Journal(sub) == Flatten(sub)

Count(j, k, addr) == Cardinality({i \in 1..Len(j) : j[i].k = k /\ j[i].addr = addr})

Last(j, ks, addr, default) ==
  LET hits == {i \in 1..Len(j) : j[i].k \in ks /\ j[i].addr = addr}
  IN IF hits = {} THEN default
     ELSE LET i == CHOOSE x \in hits : \A y \in hits : y <= x
          IN IF j[i].k = "reset" THEN 0 ELSE j[i].v

\* ------------------------------------------------------------------- state
VARIABLES
  code,        \* host accounts: address -> index of the deployed code (0: none)
  nonce,       \* host accounts: address -> nonce / trx_count
  storage,     \* host accounts: address -> value of storage slot 0
  storageAcct, \* the storage account's bytes; <<>> when Empty
  blocked,     \* whether the transaction's accounts are blocked
  other,       \* another storage account: "Empty", or in progress with an
               \* account list "Disjoint" from, or in "Common" with, this one's
  runtime,     \* Machine::runtime, the frame stack, bottom first
  substate,    \* Machine::executor.state's substate
  mode,        \* "idle" between host instructions, "exec" inside one
  instr,       \* the host instruction being processed
  n,           \* the budget of the running execute_n_steps
  steps,       \* its local counter `steps`
  result,      \* its outcome so far: running, Ok or Err((data, reason))
  ev,          \* what the last Machine operation did to frames and substate
  emitted,     \* OnEvent / OnReturn emitted by the last instruction, in order
  status,      \* how the last host instruction ended
  history,     \* what was emitted into the substate and by which frame, kept
               \* where the substate is exercised on its own (SpecJournal)
  accounts,    \* the accounts handed to a function exercised on its own
  invoked      \* the call made on it: its name, arguments and return value

\* The variables of the components exercised on their own.
aux == << history, accounts, invoked >>

vars == << code, nonce, storage, storageAcct, blocked, other, runtime, substate,
           mode, instr, n, steps, result, ev, emitted, status, aux >>

\* ----------------------------------- ExecutorState: journal over the backend
state_code(sub, addr) == Last(Journal(sub), {"code"}, addr, code[addr])

state_nonce(sub, addr) == nonce[addr] + Count(Journal(sub), "nonce", addr)

state_storage(sub, addr) ==
  Last(Journal(sub), {"storage", "reset"}, addr, storage[addr])

\* Option<U256>: None is <<>>, Some(v) is << v >>.
unwrap_or_default(opt) == IF opt = <<>> THEN 0 ELSE opt[1]

\* ExecutorState::original_storage: the slot as the backend holds it, whatever
\* the logs hold.
state_original_storage(sub, addr) == << storage[addr] >>

\* original_storage as it would be if it read through the logs as storage does.
original_storage_through_the_logs(sub, addr) == state_storage(sub, addr)

original_storage(sub, addr) ==
  unwrap_or_default(state_original_storage(sub, addr))

inc_nonce(sub, addr) == record(sub, Effect("nonce", addr, 0))
touch(sub, addr) == record(sub, Effect("touch", addr, 0))
reset_storage(sub, addr) == record(sub, Effect("reset", addr, 0))
set_code(sub, addr, c) == record(sub, Effect("code", addr, c))

\* keccak(rlp([caller, nonce])) for CreateScheme::Legacy, folded into the
\* two addresses a create can land on.
CreateAddress(caller, nce) == 4 + ((caller + nce) % 2)

\* --------------------------------------------------- Executor (the Handler)
set_storage(sub, addr, v) == record(sub, Effect("storage", addr, v))

log(sub, addr, v) == record(sub, Effect("log", addr, v))

pre_validate(sub, opcode) == "Ok"

NoInterrupt == [code_address |-> 0, address |-> 0, caller |-> 0, init_code |-> 0]

\* The depth check as it would be if it let one more level through.
TooDeep_one_level_late(sub) ==
  metadata_depth(sub) >= 0 /\ metadata_depth(sub) > call_stack_limit

\* `if let Some(depth) = metadata().depth() { if depth + 1 > call_stack_limit`
TooDeep(sub) ==
  metadata_depth(sub) >= 0 /\ metadata_depth(sub) + 1 > call_stack_limit

\* create_at as it would be without the test of the existing code.
create_at_without_code_test(sub, caller, init_code, address) ==
  IF state_nonce(sub, address) > 0
  THEN [capture |-> "Exit", reason |-> "CreateCollision", sub |-> sub,
        interrupt |-> NoInterrupt]
  ELSE [capture |-> "Trap", reason |-> "Create", sub |-> sub,
        interrupt |-> [code_address |-> 0, address |-> address,
                       caller |-> caller, init_code |-> init_code]]

\* The second half of create: sub is the substate after inc_nonce(caller),
\* address the address computed from the scheme.
create_at(sub, caller, init_code, address) ==
  IF state_code(sub, address) # 0 \/ state_nonce(sub, address) > 0
  THEN [capture |-> "Exit", reason |-> "CreateCollision", sub |-> sub,
        interrupt |-> NoInterrupt]
  ELSE [capture |-> "Trap", reason |-> "Create", sub |-> sub,
        interrupt |-> [code_address |-> 0, address |-> address,
                       caller |-> caller, init_code |-> init_code]]

\* handler.create as it would be with the nonce incremented only once the
\* collision tests have passed.
create_incrementing_on_the_trap_only(sub, caller, init_code) ==
  IF TooDeep(sub)
  THEN [capture |-> "Exit", reason |-> "CallTooDeep", sub |-> sub,
        interrupt |-> NoInterrupt]
  ELSE LET c == create_at(sub, caller, init_code,
                          CreateAddress(caller, state_nonce(sub, caller)))
       IN IF c.capture = "Exit" THEN c
          ELSE [c EXCEPT !.sub = inc_nonce(sub, caller)]

create(sub, caller, init_code) ==
  IF TooDeep(sub)
  THEN [capture |-> "Exit", reason |-> "CallTooDeep", sub |-> sub,
        interrupt |-> NoInterrupt]
  ELSE create_at(inc_nonce(sub, caller), caller, init_code,
                 CreateAddress(caller, state_nonce(sub, caller)))

\* call_inner: the precompile hook; no address of the model is a precompile.
call_inner(code_address, is_static) == "None"

call(sub, code_address, is_static, caller) ==
  IF TooDeep(sub)
  THEN [capture |-> "Exit", reason |-> "CallTooDeep", sub |-> sub,
        interrupt |-> NoInterrupt]
  ELSE IF call_inner(code_address, is_static) # "None"
  THEN [capture |-> "Exit", reason |-> call_inner(code_address, is_static),
        sub |-> sub, interrupt |-> NoInterrupt]
  ELSE [capture |-> "Trap", reason |-> "Call", sub |-> sub,
        interrupt |-> [code_address |-> code_address, address |-> code_address,
                       caller |-> caller, init_code |-> 0]]

\* ------------------------------------------------ evm::Runtime (one frame)
Runtime_new(c, context, create_reason) ==
  [reason |-> create_reason, address |-> context.address,
   caller |-> context.caller, code |-> c, pc |-> 1, stack |-> <<>>,
   ret |-> 0, return_data |-> 0]

CurOp(fr) ==
  IF fr.pc > Len(Prog(fr.code)) THEN Op("STOP", 0) ELSE Prog(fr.code)[fr.pc]

Advance(fr) == [fr EXCEPT !.pc = @ + 1]
Push(fr, v) == [fr EXCEPT !.stack = Append(@, v)]

Next1(fr, sub) ==
  [kind |-> "next", reason |-> "none", fr |-> fr, sub |-> sub,
   interrupt |-> NoInterrupt]

Exit1(fr, sub, reason, ret) ==
  [kind |-> "exit", reason |-> reason, fr |-> [fr EXCEPT !.ret = ret],
   sub |-> sub, interrupt |-> NoInterrupt]

\* The CALL / CREATE opcode after the handler answered with capture c: an
\* immediate Exit pushes 0 and goes on, a Trap suspends the frame.
Trapped(fr, c, kind) ==
  IF c.capture = "Exit"
  THEN Next1(Push(Advance(fr), 0), c.sub)
  ELSE [kind |-> kind, reason |-> "none", fr |-> Advance(fr),
        sub |-> c.sub, interrupt |-> c.interrupt]

\* Opcode o of frame fr against the handler.
Eval(fr, sub, o) ==
  IF pre_validate(sub, o.op) # "Ok" THEN Exit1(fr, sub, "OutOfGas", 0)
  ELSE CASE o.op = "NOP" -> Next1(Advance(fr), sub)
    [] o.op = "SSTORE" -> Next1(Advance(fr), set_storage(sub, fr.address, o.a))
    [] o.op = "LOG" -> Next1(Advance(fr), log(sub, fr.address, o.a))
    [] o.op \in {"CALL", "SCALL"} ->
         Trapped(fr, call(sub, o.a, o.op = "SCALL", fr.address), "call")
    [] o.op = "CREATE" ->
         Trapped(fr, create(sub, fr.address, o.a), "create")
    [] o.op = "STOP" -> Exit1(fr, sub, "Stopped", 0)
    [] o.op = "RETURN" -> Exit1(fr, sub, "Returned", o.a)
    [] o.op = "REVERT" -> Exit1(fr, sub, "Revert", 0)
    [] o.op = "INVALID" -> Exit1(fr, sub, "DesignatedInvalid", 0)
    [] o.op = "FATAL" -> Exit1(fr, sub, "NotSupported", 0)

\* One opcode of the frame.
StepOp(fr, sub) == Eval(fr, sub, CurOp(fr))

\* Runtime::run(max_steps, handler): opcodes until the budget is used up, the
\* frame exits or it traps; the exiting or trapping opcode counts as a step.
RECURSIVE Runtime_run(_, _, _, _)
Runtime_after(s, done, max_steps) ==
  IF s.kind = "next" THEN Runtime_run(s.fr, s.sub, done + 1, max_steps)
  ELSE [steps |-> done + 1, kind |-> s.kind, reason |-> s.reason,
        fr |-> s.fr, sub |-> s.sub, interrupt |-> s.interrupt]

Runtime_run(fr, sub, done, max_steps) ==
  IF done >= max_steps
  THEN [steps |-> done, kind |-> "exit", reason |-> "StepLimitReached",
        fr |-> fr, sub |-> sub, interrupt |-> NoInterrupt]
  ELSE Runtime_after(StepOp(fr, sub), done, max_steps)

\* ------------------------------------------------------------- the Machine
\* evm::Config::default() (Istanbul).
create_increase_nonce == TRUE

Machine(rt, sub) == [runtime |-> rt, sub |-> sub]

TopFrame(m) == m.runtime[Len(m.runtime)]

\* What a Machine operation did: the substate enters and exits it made, the
\* frames it pushed and popped, the reason the top frame exited with and the
\* popped frame's CreateReason and return value.
NoEv == [op |-> "none", reason |-> "none", enters |-> 0, exits |-> <<>>,
         pushed |-> 0, popped |-> 0, create_reason |-> "none", return_value |-> 0]

Ev(op, reason, enters, exits, pushed, popped) ==
  [op |-> op, reason |-> reason, enters |-> enters, exits |-> exits,
   pushed |-> pushed, popped |-> popped, create_reason |-> "none",
   return_value |-> 0]

Popped(op, reason, exits, exited_runtime) ==
  [op |-> op, reason |-> reason, enters |-> 0, exits |-> exits,
   pushed |-> 0, popped |-> 1, create_reason |-> exited_runtime.reason,
   return_value |-> exited_runtime.ret]

\* Result of a Machine operation: the Machine afterwards, Ok / Err / Panic
\* (a Rust panic: unreachable!() or unwrap() on Err), the Err payload.
Res(m, res, data, reason, e) ==
  [m |-> m, res |-> res, data |-> data, reason |-> reason, ev |-> e]

\* The frame a CALL pushes: sub is the substate after enter and touch.
push_call(rt, sub, context) ==
  Machine(Append(rt, Runtime_new(state_code(sub, context.address), context, "Call")),
          sub)

call_begin(m, caller, code_address) ==
  Res(push_call(m.runtime,
                touch(enter(inc_nonce(m.sub, caller), FALSE), code_address),
                [address |-> code_address, caller |-> caller]),
      "Ok", 0, "none", Ev("call_begin", "none", 1, <<>>, 1, 0))

\* The frame a CREATE pushes: sub is the substate after enter.
\* The Trap arm as it would be without reset_storage.
push_create_without_reset_storage(rt, sub, info) ==
  Machine(Append(rt, Runtime_new(info.init_code, info, "Create")),
          IF create_increase_nonce
          THEN inc_nonce(touch(sub, info.address), info.address)
          ELSE touch(sub, info.address))

push_create(rt, sub, info) ==
  Machine(Append(rt, Runtime_new(info.init_code, info, "Create")),
          IF create_increase_nonce
          THEN inc_nonce(reset_storage(touch(sub, info.address), info.address),
                         info.address)
          ELSE reset_storage(touch(sub, info.address), info.address))

\* create_begin after handler.create answered with capture c.
create_begin_on(m, c) ==
  IF c.capture = "Exit"
  THEN Res(Machine(m.runtime, c.sub), "InvalidInstructionData", 0, c.reason,
           Ev("create_begin", "none", 1, <<>>, 0, 0))
  ELSE Res(push_create(m.runtime, c.sub, c.interrupt), "Ok", 0, "none",
           Ev("create_begin", "none", 1, <<>>, 1, 0))

create_begin(m, caller, init_code) ==
  create_begin_on(m, create(enter(m.sub, FALSE), caller, init_code))

\* RuntimeApply as it would be without the StepLimitReached arm of
\* Machine::run: the exhausted budget is handed on as a frame exit.
RuntimeApply_without_step_limit_arm(m, r) ==
  [steps |-> r.steps,
   apply |-> CASE r.kind = "exit" -> "Exit"
               [] r.kind = "call" -> "Call"
               [] r.kind = "create" -> "Create",
   reason |-> r.reason, interrupt |-> r.interrupt,
   m |-> Machine([m.runtime EXCEPT ![Len(m.runtime)] = r.fr], r.sub)]

\* Machine::run: the top frame's Runtime::run, its Capture turned into a
\* RuntimeApply (here for what Runtime::run returned).
RuntimeApply(m, r) ==
  [steps |-> r.steps,
   apply |-> CASE r.kind = "exit" /\ r.reason = "StepLimitReached" -> "Continue"
               [] r.kind = "exit" -> "Exit"
               [] r.kind = "call" -> "Call"
               [] r.kind = "create" -> "Create",
   reason |-> r.reason, interrupt |-> r.interrupt,
   m |-> Machine([m.runtime EXCEPT ![Len(m.runtime)] = r.fr], r.sub)]

\* Machine::run as it would be over an interpreter that neither executes an
\* opcode nor exits nor traps.
run_of_a_stalled_interpreter(m, max_steps) ==
  [steps |-> 0, apply |-> "Continue", reason |-> "none",
   interrupt |-> NoInterrupt, m |-> m]

run(m, max_steps) ==
  IF m.runtime = <<>>
  THEN [steps |-> 0, apply |-> "Exit", reason |-> "NotSupported",
        interrupt |-> NoInterrupt, m |-> m]
  ELSE RuntimeApply(m, Runtime_run(TopFrame(m), m.sub, 0, max_steps))

apply_call(m, interrupt) ==
  Res(push_call(m.runtime, touch(enter(m.sub, FALSE), interrupt.code_address),
                interrupt),
      "Ok", 0, "none", Ev("apply_call", "none", 1, <<>>, 1, 0))

apply_create(m, interrupt) ==
  Res(push_create(m.runtime, enter(m.sub, FALSE), interrupt),
      "Ok", 0, "none", Ev("apply_create", "none", 1, <<>>, 1, 0))

\* evm_runtime::save_return_value: the CALL continuation of the parent frame.
save_return_value(fr, reason, return_value) ==
  LET f1 == [fr EXCEPT !.return_data = return_value] IN
  CASE is_succeed(reason) -> [control |-> "Continue", reason |-> reason, fr |-> Push(f1, 1)]
    [] is_fatal(reason) -> [control |-> "Exit", reason |-> reason, fr |-> Push(f1, 0)]
    [] OTHER -> [control |-> "Continue", reason |-> reason, fr |-> Push(f1, 0)]

\* evm_runtime::save_created_address: the CREATE continuation of the parent.
save_created_address(fr, reason, address) ==
  LET f1 == [fr EXCEPT !.return_data = 0] IN
  CASE is_succeed(reason) -> [control |-> "Continue", reason |-> reason, fr |-> Push(f1, address)]
    [] is_fatal(reason) -> [control |-> "Exit", reason |-> reason, fr |-> Push(f1, ZeroAddress)]
    [] OTHER -> [control |-> "Continue", reason |-> reason, fr |-> Push(f1, ZeroAddress)]

SetTop(m, fr) == [m.runtime EXCEPT ![Len(m.runtime)] = fr]

\* apply_exit_call as it would be with the exit_commit made for every
\* reason, not only for a Succeed.
apply_exit_call_always_commits(m, exited_runtime, reason, exits) ==
  LET c == exit_commit(m.sub)
      e == Popped("apply_exit", reason, Append(exits, "exit_commit"), exited_runtime)
  IN IF ~c.ok THEN Res(m, "Err", 0, "StackUnderflow", e)
     ELSE IF m.runtime = <<>>
     THEN Res(Machine(m.runtime, c.sub), "Err", exited_runtime.ret, reason, e)
     ELSE LET k == save_return_value(TopFrame(m), reason, exited_runtime.ret)
          IN IF k.control = "Continue"
             THEN Res(Machine(SetTop(m, k.fr), c.sub), "Ok", 0, "none", e)
             ELSE Res(Machine(SetTop(m, k.fr), c.sub), "Err", 0, k.reason, e)

\* apply_exit_call as it would be with every failed call ending the
\* transaction, whether or not a parent frame remains.
apply_exit_call_fails_upward(m, exited_runtime, reason, exits) ==
  LET c == IF is_succeed(reason) THEN exit_commit(m.sub)
           ELSE [ok |-> TRUE, sub |-> m.sub]
      ex == IF is_succeed(reason) THEN Append(exits, "exit_commit") ELSE exits
      e == Popped("apply_exit", reason, ex, exited_runtime)
  IN IF ~c.ok THEN Res(m, "Err", 0, "StackUnderflow", e)
     ELSE IF m.runtime = <<>> \/ ~is_succeed(reason)
     THEN Res(Machine(m.runtime, c.sub), "Err", exited_runtime.ret, reason, e)
     ELSE Res(Machine(SetTop(m, save_return_value(TopFrame(m), reason,
                                                  exited_runtime.ret).fr),
                      c.sub),
              "Ok", 0, "none", e)

\* m is the Machine after the pop, exits the substate exits made so far.
apply_exit_call(m, exited_runtime, reason, exits) ==
  LET c == IF is_succeed(reason) THEN exit_commit(m.sub)
           ELSE [ok |-> TRUE, sub |-> m.sub]
      ex == IF is_succeed(reason) THEN Append(exits, "exit_commit") ELSE exits
      e == Popped("apply_exit", reason, ex, exited_runtime)
      return_value == exited_runtime.ret
  IN IF ~c.ok THEN Res(m, "Err", 0, "StackUnderflow", e)
     ELSE IF m.runtime = <<>>
     THEN Res(Machine(m.runtime, c.sub), "Err", return_value, reason, e)
     ELSE LET k == save_return_value(TopFrame(m), reason, return_value)
              m1 == Machine(SetTop(m, k.fr), c.sub)
          IN IF k.control = "Continue" THEN Res(m1, "Ok", 0, "none", e)
             ELSE Res(m1, "Err", 0, k.reason, e)

\* apply_exit_create as it would be with create_contract_limit = None.
apply_exit_create_without_limit(m, exited_runtime, reason0, address, exits) ==
  LET return_value == exited_runtime.ret
      over == FALSE
      c == IF ~is_succeed(reason0) THEN [ok |-> TRUE, sub |-> m.sub]
           ELSE IF over THEN exit_discard(m.sub)
           ELSE LET x == exit_commit(m.sub)
                IN IF x.ok THEN [ok |-> TRUE, sub |-> set_code(x.sub, address, return_value)]
                   ELSE x
      ex == IF ~is_succeed(reason0) THEN exits
            ELSE IF over THEN Append(exits, "exit_discard")
            ELSE Append(exits, "exit_commit")
      reason == IF is_succeed(reason0) /\ over /\ c.ok
                THEN "CreateContractLimit" ELSE reason0
      e == Popped("apply_exit", reason0, ex, exited_runtime)
  IN IF ~c.ok THEN Res(m, "Err", 0, "StackUnderflow", e)
     ELSE IF m.runtime = <<>>
     THEN Res(Machine(m.runtime, c.sub), "Err", 0, reason, e)
     ELSE LET k == save_created_address(TopFrame(m), reason, address)
              m1 == Machine(SetTop(m, k.fr), c.sub)
          IN IF k.control = "Continue" THEN Res(m1, "Ok", 0, "none", e)
             ELSE Res(m1, "Err", 0, k.reason, e)

apply_exit_create(m, exited_runtime, reason0, address, exits) ==
  LET return_value == exited_runtime.ret
      over == Len(Prog(return_value)) > create_contract_limit
      c == IF ~is_succeed(reason0) THEN [ok |-> TRUE, sub |-> m.sub]
           ELSE IF over THEN exit_discard(m.sub)
           ELSE LET x == exit_commit(m.sub)
                IN IF x.ok THEN [ok |-> TRUE, sub |-> set_code(x.sub, address, return_value)]
                   ELSE x
      ex == IF ~is_succeed(reason0) THEN exits
            ELSE IF over THEN Append(exits, "exit_discard")
            ELSE Append(exits, "exit_commit")
      reason == IF is_succeed(reason0) /\ over /\ c.ok
                THEN "CreateContractLimit" ELSE reason0
      e == Popped("apply_exit", reason0, ex, exited_runtime)
  IN IF ~c.ok THEN Res(m, "Err", 0, "StackUnderflow", e)
     ELSE IF m.runtime = <<>>
     THEN Res(Machine(m.runtime, c.sub), "Err", 0, reason, e)
     ELSE LET k == save_created_address(TopFrame(m), reason, address)
              m1 == Machine(SetTop(m, k.fr), c.sub)
          IN IF k.control = "Continue" THEN Res(m1, "Ok", 0, "none", e)
             ELSE Res(m1, "Err", 0, k.reason, e)

\* apply_exit as it would be with a Revert merged into the parent log
\* (exit_commit) instead of dropped (exit_revert).
apply_exit_commits_revert(m, reason) ==
  IF reason = "StepLimitReached"
  THEN Res(m, "Panic", 0, reason, Ev("apply_exit", reason, 0, <<>>, 0, 0))
  ELSE
  LET c == CASE is_succeed(reason) -> [ok |-> TRUE, sub |-> m.sub]
             [] is_revert(reason) -> exit_commit(m.sub)
             [] OTHER -> exit_discard(m.sub)
      ex == CASE is_succeed(reason) -> <<>>
              [] is_revert(reason) -> << "exit_commit" >>
              [] OTHER -> << "exit_discard" >>
  IN IF ~c.ok
     THEN Res(m, "Err", 0, "StackUnderflow", Ev("apply_exit", reason, 0, ex, 0, 0))
     ELSE IF m.runtime = <<>>
     THEN Res(Machine(m.runtime, c.sub), "Err", 0, "NotSupported",
              Ev("apply_exit", reason, 0, ex, 0, 0))
     ELSE IF TopFrame(m).reason = "Call"
     THEN apply_exit_call(Machine(SubSeq(m.runtime, 1, Len(m.runtime) - 1), c.sub),
                          TopFrame(m), reason, ex)
     ELSE apply_exit_create(Machine(SubSeq(m.runtime, 1, Len(m.runtime) - 1), c.sub),
                            TopFrame(m), reason, TopFrame(m).address, ex)

apply_exit(m, reason) ==
  IF reason = "StepLimitReached"
  THEN Res(m, "Panic", 0, reason, Ev("apply_exit", reason, 0, <<>>, 0, 0))
  ELSE
  LET c == CASE is_succeed(reason) -> [ok |-> TRUE, sub |-> m.sub]
             [] is_revert(reason) -> exit_revert(m.sub)
             [] OTHER -> exit_discard(m.sub)
      ex == CASE is_succeed(reason) -> <<>>
              [] is_revert(reason) -> << "exit_revert" >>
              [] OTHER -> << "exit_discard" >>
  IN IF ~c.ok
     THEN Res(m, "Err", 0, "StackUnderflow", Ev("apply_exit", reason, 0, ex, 0, 0))
     ELSE IF m.runtime = <<>>
     THEN Res(Machine(m.runtime, c.sub), "Err", 0, "NotSupported",
              Ev("apply_exit", reason, 0, ex, 0, 0))
     ELSE LET exited_runtime == TopFrame(m)
              m1 == Machine(SubSeq(m.runtime, 1, Len(m.runtime) - 1), c.sub)
          IN IF exited_runtime.reason = "Call"
             THEN apply_exit_call(m1, exited_runtime, reason, ex)
             ELSE apply_exit_create(m1, exited_runtime, reason,
                                    exited_runtime.address, ex)

\* One pass of the `while steps < n` loop of execute_n_steps: dispatch is its
\* `match apply`, on what Machine::run returned.
dispatch(r) ==
  CASE r.apply = "Continue" ->
         Res(r.m, "Ok", 0, "none", Ev("continue", "none", 0, <<>>, 0, 0))
    [] r.apply = "Call" -> apply_call(r.m, r.interrupt)
    [] r.apply = "Create" -> apply_create(r.m, r.interrupt)
    [] r.apply = "Exit" -> apply_exit(r.m, r.reason)

Iteration(a, r, st) ==
  [m |-> a.m, steps |-> st + r.steps, res |-> a.res, data |-> a.data,
   reason |-> a.reason, ev |-> a.ev, apply |-> r.apply,
   steps_executed |-> r.steps]

loop_on(r, st) == Iteration(dispatch(r), r, st)

\* The loop body as it would be with the whole n handed to every run.
loop_iter_with_whole_budget(m, budget, st) == loop_on(run(m, budget), st)

\* `let (steps_executed, apply) = self.run(n - steps); steps += steps_executed;`
loop_iter(m, budget, st) == loop_on(run(m, budget - st), st)

RECURSIVE execute_loop(_, _, _)
execute_after(it, budget) ==
  IF it.res = "Ok" THEN execute_loop(it.m, budget, it.steps)
  ELSE [res |-> it.res, m |-> it.m, data |-> it.data, reason |-> it.reason]

execute_loop(m, budget, st) ==
  IF st >= budget THEN [res |-> "Ok", m |-> m, data |-> 0, reason |-> "none"]
  ELSE execute_after(loop_iter(m, budget, st), budget)

execute_n_steps(m, budget) == execute_loop(m, budget, 0)

RECURSIVE execute(_)
execute_again(r) == IF r.res = "Ok" THEN execute(r.m) ELSE r

execute(m) == execute_again(execute_n_steps(m, U64_MAX))

\* --------------------------------------- storage-account snapshot (4.F)
\* The snapshot is a sequence of numbers: every sequence is written with its
\* length first, code is written inline opcode by opcode.
OpNum(o) == CHOOSE i \in 1..Len(OpNames) : OpNames[i] = o

EffectKinds == << "storage", "log", "nonce", "code", "reset", "touch" >>
KindNum(k) == CHOOSE i \in 1..Len(EffectKinds) : EffectKinds[i] = k

RECURSIVE Concat(_)
Concat(ss) == IF ss = <<>> THEN <<>> ELSE Head(ss) \o Concat(Tail(ss))

EncCode(c) ==
  << Len(Prog(c)) >> \o
  Concat([i \in 1..Len(Prog(c)) |-> << OpNum(Prog(c)[i].op), Prog(c)[i].a >>])

EncFrame(fr) ==
  (IF fr.reason = "Create" THEN << 1, fr.address >> ELSE << 0 >>)
  \o << fr.address, fr.caller, fr.pc, Len(fr.stack) >> \o fr.stack
  \o EncCode(fr.code) \o << fr.ret, fr.return_data >>

EncLog(l) ==
  << (IF l.is_static THEN 1 ELSE 0), Len(l.journal) >> \o
  Concat([i \in 1..Len(l.journal) |->
            << KindNum(l.journal[i].k), l.journal[i].addr, l.journal[i].v >>])

serialize(rt, sub) ==
  << Len(rt), Len(sub) >>
  \o Concat([i \in 1..Len(rt) |-> EncFrame(rt[i])])
  \o Concat([i \in 1..Len(sub) |-> EncLog(sub[i])])

CodeId(ops) == IF ops = <<>> THEN 0 ELSE CHOOSE k \in ProgIds : Progs[k] = ops

\* Each Dec* reads one item at position p and returns it with the position
\* after it.
DecCode(b, p) ==
  LET len == b[p]
  IN [v |-> CodeId([i \in 1..len |-> Op(OpNames[b[p + 2 * i - 1]], b[p + 2 * i])]),
      p |-> p + 1 + 2 * len]

DecFrame(b, p) ==
  LET isCreate == b[p] = 1
      q == IF isCreate THEN p + 2 ELSE p + 1
      slen == b[q + 3]
      c == DecCode(b, q + 4 + slen)
  IN [v |-> [reason |-> IF isCreate THEN "Create" ELSE "Call",
             address |-> IF isCreate THEN b[p + 1] ELSE b[q],
             caller |-> b[q + 1], code |-> c.v, pc |-> b[q + 2],
             stack |-> [i \in 1..slen |-> b[q + 3 + i]],
             ret |-> b[c.p], return_data |-> b[c.p + 1]],
      p |-> c.p + 2]

DecLog(b, p) ==
  LET len == b[p + 1]
  IN [v |-> [is_static |-> b[p] = 1,
             journal |-> [i \in 1..len |->
                            Effect(EffectKinds[b[p + 3 * i - 1]], b[p + 3 * i],
                                   b[p + 3 * i + 1])]],
      p |-> p + 2 + 3 * len]

RECURSIVE DecMany(_, _, _, _)
\* count items read with Dec (by name) from position p on.
DecCons(x, rest) == [v |-> << x.v >> \o rest.v, p |-> rest.p]

DecRest(b, x, count, what) == DecCons(x, DecMany(b, x.p, count - 1, what))

DecMany(b, p, count, what) ==
  IF count = 0 THEN [v |-> <<>>, p |-> p]
  ELSE DecRest(b, IF what = "frame" THEN DecFrame(b, p) ELSE DecLog(b, p),
               count, what)

DecLogs(b, frames) == Machine(frames.v, DecMany(b, frames.p, b[2], "log").v)

deserialize(b) == DecLogs(b, DecMany(b, 3, b[1], "frame"))

\* StorageAccount: the header (caller, nonce) and then the snapshot.
StorageAccount_new(caller, nce) == << caller, nce >>
HeaderLen == Len(StorageAccount_new(0, 0))
caller_and_nonce(acct) == SubSeq(acct, 1, HeaderLen)

\* save_into as it would be writing only the running frame, not the stack.
save_into_top_frame_only(m, acct) ==
  caller_and_nonce(acct)
  \o serialize(SubSeq(m.runtime, Len(m.runtime), Len(m.runtime)), m.sub)

\* restore as it would be building the ExecutorState over a new substate
\* instead of the deserialized one.
restore_with_new_substate(acct) ==
  Machine(deserialize(SubSeq(acct, HeaderLen + 1, Len(acct))).runtime,
          substate_new)

\* Machine::save_into / Machine::restore.
save_into(m, acct) == caller_and_nonce(acct) \o serialize(m.runtime, m.sub)

restore(acct) == deserialize(SubSeq(acct, HeaderLen + 1, Len(acct)))

\* ------------------------------------------------------ host instructions
OneShot == {"CallFromRawEthereumTX", "Finalize"}
CreateStart == "ExecuteTrxFromAccountDataIterative(create)"
Starts == {"PartialCallFromRawEthereumTX", "ExecuteTrxFromAccountDataIterative",
           CreateStart}

Running == [res |-> "Running", data |-> 0, reason |-> "none"]
NotRunning == [res |-> "none", data |-> 0, reason |-> "none"]

\* What check_ethereum_authority is given about a signed transaction: whether
\* the recovered sender is the caller account's ether address, trx.nonce, and
\* whether trx.chain_id is the program's chain id.
Trx(from_ok, trx_nonce, chain_ok) ==
  [signed |-> TRUE, from_ok |-> from_ok, nonce |-> trx_nonce,
   chain_ok |-> chain_ok]

NoTrx == [signed |-> FALSE, from_ok |-> FALSE, nonce |-> 0, chain_ok |-> FALSE]

\* How a host instruction ended, with the signed transaction it carried.
StatusOf(name, res, reason, trx) ==
  [instr |-> name, result |-> res, reason |-> reason, trx |-> trx]

Status(name, res, reason) == StatusOf(name, res, reason, NoTrx)

\* invoke_on_return as it would be with PCUnderflow's byte given to
\* CreateEmpty as well.
exit_status_with_a_shared_byte(reason) ==
  CASE reason = "Stopped" -> 17 [] reason = "Returned" -> 18
    [] reason = "Suicided" -> 19 [] reason = "Revert" -> 208
    [] reason = "StackUnderflow" -> 225 [] reason = "StackOverflow" -> 226
    [] reason = "InvalidJump" -> 227 [] reason = "InvalidRange" -> 228
    [] reason = "DesignatedInvalid" -> 229 [] reason = "CallTooDeep" -> 230
    [] reason = "CreateCollision" -> 231 [] reason = "CreateContractLimit" -> 232
    [] reason = "OutOfOffset" -> 233 [] reason = "OutOfGas" -> 234
    [] reason = "OutOfFund" -> 235 [] reason = "PCUnderflow" -> 236
    [] reason = "CreateEmpty" -> 236 [] reason = "NotSupported" -> 241
    [] reason = "UnhandledInterrupt" -> 242 [] reason = "CallErrorAsFatal" -> 243

\* invoke_on_return's exit status byte.
exit_status(reason) ==
  CASE reason = "Stopped" -> 17 [] reason = "Returned" -> 18
    [] reason = "Suicided" -> 19 [] reason = "Revert" -> 208
    [] reason = "StackUnderflow" -> 225 [] reason = "StackOverflow" -> 226
    [] reason = "InvalidJump" -> 227 [] reason = "InvalidRange" -> 228
    [] reason = "DesignatedInvalid" -> 229 [] reason = "CallTooDeep" -> 230
    [] reason = "CreateCollision" -> 231 [] reason = "CreateContractLimit" -> 232
    [] reason = "OutOfOffset" -> 233 [] reason = "OutOfGas" -> 234
    [] reason = "OutOfFund" -> 235 [] reason = "PCUnderflow" -> 236
    [] reason = "CreateEmpty" -> 237 [] reason = "NotSupported" -> 241
    [] reason = "UnhandledInterrupt" -> 242 [] reason = "CallErrorAsFatal" -> 243

\* check_ethereum_authority as it would be without the chain id test.
check_ethereum_authority_without_chain_id(from_ok, trx_nonce, chain_ok) ==
  IF ~from_ok THEN "InvalidArgument"
  ELSE IF nonce[Caller] # trx_nonce THEN "InvalidArgument"
  ELSE "Ok"

check_ethereum_authority(from_ok, trx_nonce, chain_ok) ==
  IF ~from_ok THEN "InvalidArgument"
  ELSE IF nonce[Caller] # trx_nonce THEN "InvalidArgument"
  ELSE IF ~chain_ok THEN "InvalidArgument"
  ELSE "Ok"

\* call_results as it would be without the is_succeed() test: the journal is
\* handed to applies_and_invokes whatever the exit reason.
call_results_unconditional(r) ==
  [exit_reason |-> r.reason, result |-> r.data,
   applies |-> << substate[1].journal >>]

\* do_call / do_finalize / do_continue: the journal is kept for the host only
\* when the exit reason is a Succeed (executor_state.deconstruct()).
call_results(r) ==
  [exit_reason |-> r.reason, result |-> r.data,
   applies |-> IF is_succeed(r.reason) THEN << substate[1].journal >> ELSE <<>>]

OnEvents(j) ==
  LET logs == SelectSeq(j, LAMBDA e : e.k = "log")
  IN [i \in 1..Len(logs) |-> [name |-> "OnEvent", a |-> logs[i].addr, b |-> logs[i].v]]

\* applies_and_invokes as it would be with invoke_on_return inside the
\* `if let Some(..)`: nothing is emitted for a transaction that failed.
applies_and_invokes_on_success_only(cr) ==
  LET some == cr.applies # <<>>
      j == IF some THEN cr.applies[1] ELSE <<>>
  IN [code |-> [a \in Addr |-> Last(j, {"code"}, a, code[a])],
      nonce |-> [a \in Addr |-> nonce[a] + Count(j, "nonce", a)],
      storage |-> [a \in Addr |-> Last(j, {"storage", "reset"}, a, storage[a])],
      emitted |-> IF some
                  THEN OnEvents(j) \o
                       << [name |-> "OnReturn", a |-> exit_status(cr.exit_reason),
                           b |-> cr.result] >>
                  ELSE <<>>]

\* applies_and_invokes: what it leaves in the host accounts and what it emits.
applies_and_invokes(cr) ==
  LET some == cr.applies # <<>>
      j == IF some THEN cr.applies[1] ELSE <<>>
  IN [code |-> [a \in Addr |-> Last(j, {"code"}, a, code[a])],
      nonce |-> [a \in Addr |-> nonce[a] + Count(j, "nonce", a)],
      storage |-> [a \in Addr |-> Last(j, {"storage", "reset"}, a, storage[a])],
      emitted |-> OnEvents(j) \o
                  << [name |-> "OnReturn", a |-> exit_status(cr.exit_reason),
                      b |-> cr.result] >>]

Machine_new == Machine(<<>>, substate_new)

RejectTrx(name, err, trx) ==
  /\ status' = StatusOf(name, err, "none", trx)
  /\ emitted' = <<>>
  /\ UNCHANGED << code, nonce, storage, storageAcct, blocked, other, runtime,
                  substate, mode, instr, n, steps, result, ev, aux >>

Reject(name, err) == RejectTrx(name, err, NoTrx)

\* The Machine right after call_begin / create_begin, about to execute.
BeginTrx(name, r, budget, trx) ==
  /\ runtime' = r.m.runtime
  /\ substate' = r.m.sub
  /\ mode' = "exec"
  /\ instr' = name
  /\ n' = budget
  /\ steps' = 0
  /\ result' = IF r.res = "Ok" THEN Running
               ELSE [res |-> "Failed", data |-> 0, reason |-> r.res]
  /\ ev' = r.ev
  /\ emitted' = <<>>
  /\ status' = StatusOf(name, "pending", "none", trx)
  /\ UNCHANGED << code, nonce, storage, storageAcct, blocked, other, aux >>

Begin(name, r, budget) == BeginTrx(name, r, budget, NoTrx)

CanStart == mode = "idle" /\ ~blocked /\ nonce[Caller] < MaxTrxCount

CallFromRawEthereumTX ==
  /\ CanStart
  /\ \E from_ok \in BOOLEAN, trx_nonce \in 0..MaxTrxCount, chain_ok \in BOOLEAN :
       IF check_ethereum_authority(from_ok, trx_nonce, chain_ok) # "Ok"
       THEN RejectTrx("CallFromRawEthereumTX", "InvalidArgument",
                      Trx(from_ok, trx_nonce, chain_ok))
       ELSE BeginTrx("CallFromRawEthereumTX",
                     call_begin(Machine_new, Caller, Contract), U64_MAX,
                     Trx(from_ok, trx_nonce, chain_ok))

Finalize ==
  /\ CanStart
  /\ \E init_code \in InitCodes :
       Begin("Finalize", create_begin(Machine_new, Caller, init_code), U64_MAX)

PartialCallFromRawEthereumTX ==
  /\ CanStart
  /\ storageAcct = <<>>
  /\ \E from_ok \in BOOLEAN, trx_nonce \in 0..MaxTrxCount, chain_ok \in BOOLEAN,
        step_count \in 0..MaxStepCount :
       IF check_ethereum_authority(from_ok, trx_nonce, chain_ok) # "Ok"
       THEN RejectTrx("PartialCallFromRawEthereumTX", "InvalidArgument",
                      Trx(from_ok, trx_nonce, chain_ok))
       ELSE BeginTrx("PartialCallFromRawEthereumTX",
                     call_begin(Machine_new, Caller, Contract), step_count,
                     Trx(from_ok, trx_nonce, chain_ok))

ExecuteTrxFromAccountDataIterative ==
  /\ CanStart
  /\ storageAcct = <<>>
  /\ \E from_ok \in BOOLEAN, trx_nonce \in 0..MaxTrxCount, chain_ok \in BOOLEAN,
        step_count \in 0..MaxStepCount, call_data \in {0} \cup InitCodes :
       \* call_data = 0 stands for a transaction with trx.to set (a call)
       IF check_ethereum_authority(from_ok, trx_nonce, chain_ok) # "Ok"
       THEN RejectTrx("ExecuteTrxFromAccountDataIterative", "InvalidArgument",
                      Trx(from_ok, trx_nonce, chain_ok))
       ELSE IF call_data = 0
       THEN BeginTrx("ExecuteTrxFromAccountDataIterative",
                     call_begin(Machine_new, Caller, Contract), step_count,
                     Trx(from_ok, trx_nonce, chain_ok))
       ELSE BeginTrx(CreateStart,
                     create_begin(Machine_new, Caller, call_data), step_count,
                     Trx(from_ok, trx_nonce, chain_ok))

Continue ==
  /\ mode = "idle"
  /\ \E step_count \in 0..MaxStepCount :
       IF storageAcct = <<>>
       THEN Reject("Continue", "StorageAccountUninitialized")
       ELSE Begin("Continue",
                  Res(restore(storageAcct), "Ok", 0, "none",
                      Ev("restore", "none", 0, <<>>, 0, 0)),
                  step_count)

\* Cancel: no Machine is built; the caller's trx_count is checked against the
\* snapshot's header, the accounts are unblocked and the storage account is
\* destroyed.  `acc.trx_count += 1` acts on the value AccountData::unpack
\* returned, which is moved into SolidityAccount::new and never packed back
\* into caller_info.data: the stored trx_count is left as it was.
Cancel ==
  /\ mode = "idle"
  /\ IF storageAcct = <<>>
     THEN Reject("Cancel", "InvalidAccountData")
     ELSE IF caller_and_nonce(storageAcct) # << Caller, nonce[Caller] >>
     THEN Reject("Cancel", "InvalidAccountData")
     ELSE /\ storageAcct' = <<>>
          /\ blocked' = FALSE
          /\ status' = Status("Cancel", "Ok", "none")
          /\ emitted' = <<>>
          /\ UNCHANGED << code, nonce, storage, other, runtime, substate, mode,
                          instr, n, steps, result, ev, aux >>

\* The account lists another storage account's transaction may carry.
Lists == {"Disjoint", "Common"}

\* block_accounts as it would be if it did not look at who holds an account.
block_accounts_unchecked(held) == "Ok"

\* StorageAccount::block_accounts: fails when an account of the list is held
\* by a different storage account.
block_accounts(held) == IF held THEN "InvalidAccountData" ELSE "Ok"

\* StorageAccount::check_accounts: every account of the list is blocked by
\* this storage account.
check_accounts(in_progress, held) ==
  IF in_progress /\ ~held THEN "Ok" ELSE "InvalidAccountData"

\* A start instruction (PartialCallFromRawEthereumTX or
\* ExecuteTrxFromAccountDataIterative) on the other storage account, with
\* the account list `list`: its first slice, then block_accounts.  Only the
\* storage account's state and the blocking are modelled for it.
OtherStart ==
  /\ mode = "idle"
  /\ \E list \in Lists :
       IF other # "Empty"
       THEN Reject("OtherStart", "InvalidAccountData")
       ELSE IF block_accounts(list = "Common" /\ blocked) # "Ok"
       THEN Reject("OtherStart", block_accounts(list = "Common" /\ blocked))
       ELSE /\ other' = list
            /\ status' = Status("OtherStart", "Ok", "none")
            /\ emitted' = <<>>
            /\ UNCHANGED << code, nonce, storage, storageAcct, blocked, runtime,
                            substate, mode, instr, n, steps, result, ev, aux >>

\* Continue on the other storage account: restore, check_accounts, a slice
\* that either terminates its transaction (unblock_accounts_and_destroy) or
\* does not.
OtherContinue ==
  /\ mode = "idle"
  /\ \E terminates \in BOOLEAN :
       IF other = "Empty"
       THEN Reject("OtherContinue", "StorageAccountUninitialized")
       ELSE IF check_accounts(TRUE, other = "Common" /\ blocked) # "Ok"
       THEN Reject("OtherContinue", "InvalidAccountData")
       ELSE /\ other' = IF terminates THEN "Empty" ELSE other
            /\ status' = Status("OtherContinue", "Ok", "none")
            /\ emitted' = <<>>
            /\ UNCHANGED << code, nonce, storage, storageAcct, blocked, runtime,
                            substate, mode, instr, n, steps, result, ev, aux >>

\* Cancel on the other storage account.
OtherCancel ==
  /\ mode = "idle"
  /\ IF other = "Empty"
     THEN Reject("OtherCancel", "InvalidAccountData")
     ELSE IF check_accounts(TRUE, other = "Common" /\ blocked) # "Ok"
     THEN Reject("OtherCancel", "InvalidAccountData")
     ELSE /\ other' = "Empty"
          /\ status' = Status("OtherCancel", "Ok", "none")
          /\ emitted' = <<>>
          /\ UNCHANGED << code, nonce, storage, storageAcct, blocked, runtime,
                          substate, mode, instr, n, steps, result, ev, aux >>

\* One pass of the execute_n_steps loop, by what Machine::run yielded.
Pass(it, kind) ==
  /\ it.apply = kind
  /\ runtime' = it.m.runtime
  /\ substate' = it.m.sub
  /\ steps' = it.steps
  /\ result' = IF it.res = "Ok" THEN Running
               ELSE [res |-> it.res, data |-> it.data, reason |-> it.reason]
  /\ ev' = it.ev

Exec(kind) ==
  /\ result.res = "Running"
  /\ steps < n
  /\ Pass(loop_iter(Machine(runtime, substate), n, steps), kind)
  /\ UNCHANGED << code, nonce, storage, storageAcct, blocked, other, mode, instr, n,
                  emitted, status, aux >>

StepContinue == mode = "exec" /\ Exec("Continue")

StepCall == mode = "exec" /\ Exec("Call")

StepCreate == mode = "exec" /\ Exec("Create")

StepExit == mode = "exec" /\ Exec("Exit")

\* The Machine goes out of scope when the instruction returns.
Drop ==
  /\ runtime' = <<>>
  /\ substate' = substate_new
  /\ mode' = "idle"
  /\ instr' = "none"
  /\ n' = 0
  /\ steps' = 0
  /\ result' = NotRunning
  /\ ev' = NoEv
  /\ UNCHANGED << other, aux >>

Done == mode = "exec" /\ (result.res # "Running" \/ steps >= n)

\* The instruction returns an error (or panics): the host keeps nothing.
FinishFailed ==
  /\ Done
  /\ \/ result.res \in {"Failed", "Panic"}
     \/ result.res = "Err" /\ instr \in Starts
     \/ /\ result.res = "Running" /\ instr \in Starts
        /\ block_accounts(other = "Common") # "Ok"
  /\ status' = Status(instr,
                      CASE result.res = "Failed" -> result.reason
                        [] result.res = "Running" ->
                             block_accounts(other = "Common")
                        [] result.res = "Panic" -> "Panic"
                        [] instr = CreateStart -> "Panic"
                        [] OTHER -> "InvalidInstructionData",
                      "none")
  /\ emitted' = <<>>
  /\ Drop
  /\ UNCHANGED << code, nonce, storage, storageAcct, blocked >>

Applied(a) ==
  /\ code' = a.code
  /\ nonce' = a.nonce
  /\ storage' = a.storage
  /\ emitted' = a.emitted

\* The Continue handler as it would be if unblock_accounts_and_destroy were
\* called only for a successful exit reason.
FinishTerminal_unblocks_on_success_only ==
  /\ Done
  /\ result.res = "Err"
  /\ instr \in OneShot \cup {"Continue"}
  /\ Applied(applies_and_invokes(call_results(result)))
  /\ status' = Status(instr, "Ok", result.reason)
  /\ IF instr = "Continue" /\ is_succeed(result.reason)
     THEN storageAcct' = <<>> /\ blocked' = FALSE
     ELSE UNCHANGED << storageAcct, blocked >>
  /\ Drop

\* do_call / do_finalize / do_continue got Err((result, exit_reason)): the
\* transaction is over.
FinishTerminal ==
  /\ Done
  /\ result.res = "Err"
  /\ instr \in OneShot \cup {"Continue"}
  /\ Applied(applies_and_invokes(call_results(result)))
  /\ status' = Status(instr, "Ok", result.reason)
  /\ IF instr = "Continue"
     THEN storageAcct' = <<>> /\ blocked' = FALSE
     ELSE UNCHANGED << storageAcct, blocked >>
  /\ Drop

\* do_partial_call / do_partial_create as they would be if the outcome of
\* execute_n_steps were dropped: the Machine is saved and the accounts are
\* blocked whether or not the execution is over.
FinishSlice_whatever_the_outcome ==
  /\ Done
  /\ result.res \in {"Running", "Err"}
  /\ instr \in Starts \cup {"Continue"}
  /\ instr \in Starts => block_accounts(other = "Common") = "Ok"
  /\ storageAcct' = save_into(Machine(runtime, substate),
                              IF instr = "Continue" THEN storageAcct
                              ELSE StorageAccount_new(Caller, nonce[Caller]))
  /\ blocked' = TRUE
  /\ status' = Status(instr, "Ok", "none")
  /\ emitted' = <<>>
  /\ Drop
  /\ UNCHANGED << code, nonce, storage >>

\* execute_n_steps returned Ok(()): the slice is saved for the next Continue.
FinishSlice ==
  /\ Done
  /\ result.res = "Running"
  /\ instr \in Starts \cup {"Continue"}
  /\ instr \in Starts => block_accounts(other = "Common") = "Ok"
  /\ storageAcct' = save_into(Machine(runtime, substate),
                              IF instr = "Continue" THEN storageAcct
                              ELSE StorageAccount_new(Caller, nonce[Caller]))
  /\ blocked' = TRUE
  /\ status' = Status(instr, "Ok", "none")
  /\ emitted' = <<>>
  /\ Drop
  /\ UNCHANGED << code, nonce, storage >>

\* Nothing emitted yet, no frame entered: the root log alone.
NoHistory ==
  [emissions |-> <<>>, open |-> <<>>, dropped |-> {}, entered |-> 0,
   original |-> [a \in Addr |-> 0]]

NoCall == [fn |-> "none"]

Uncalled == accounts = <<>> /\ invoked = NoCall

\* The components exercised on their own are at rest.
Unused == history = NoHistory /\ Uncalled

\* Between two host instructions, nothing in progress.
HostIdle ==
  /\ code = [a \in Addr |-> IF a = Contract THEN 1 ELSE 0]
  /\ nonce = [a \in Addr |-> 0]
  /\ storage = [a \in Addr |-> 0]
  /\ storageAcct = <<>>
  /\ blocked = FALSE
  /\ other = "Empty"
  /\ runtime = <<>>
  /\ substate = substate_new
  /\ mode = "idle"
  /\ instr = "none"
  /\ n = 0
  /\ steps = 0
  /\ result = NotRunning
  /\ ev = NoEv
  /\ emitted = <<>>
  /\ status = Status("none", "none", "none")

host == << code, nonce, storage, storageAcct, blocked, other, runtime, substate,
          mode, instr, n, steps, result, ev, emitted, status >>

Init ==
  /\ \E c \in ContractCodes, d \in CalleeCodes, pre \in CreatedCodes,
        used \in CreatedNonces :
       /\ pre = 0 \/ used = 0
       /\ code = [a \in Addr |-> CASE a = Contract -> c [] a = Callee -> d
                                   [] a \in Created -> pre [] OTHER -> 0]
       /\ nonce = [a \in Addr |-> IF a \in Created THEN used ELSE 0]
  /\ storage = [a \in Addr |-> 0]
  /\ storageAcct = <<>>
  /\ blocked = FALSE
  /\ other = "Empty"
  /\ runtime = <<>>
  /\ substate = substate_new
  /\ mode = "idle"
  /\ instr = "none"
  /\ n = 0
  /\ steps = 0
  /\ result = NotRunning
  /\ ev = NoEv
  /\ emitted = <<>>
  /\ status = Status("none", "none", "none")
  /\ Unused

Next ==
  \/ CallFromRawEthereumTX
  \/ Finalize
  \/ PartialCallFromRawEthereumTX
  \/ ExecuteTrxFromAccountDataIterative
  \/ Continue
  \/ Cancel
  \/ OtherStart
  \/ OtherContinue
  \/ OtherCancel
  \/ StepContinue
  \/ StepCall
  \/ StepCreate
  \/ StepExit
  \/ FinishFailed
  \/ FinishTerminal
  \/ FinishSlice

Spec == Init /\ [][Next]_vars

\* A host instruction is one sequential call: once it has begun, the next
\* pass of its loop, and then its return, do happen.
InsideInstruction ==
  \/ StepCall
  \/ StepCreate
  \/ StepExit
  \/ FinishFailed
  \/ FinishTerminal

\* The instructions that run execute(): do_call and do_finalize.
NextExecute ==
  \/ CallFromRawEthereumTX
  \/ Finalize
  \/ StepCall
  \/ StepCreate
  \/ StepExit
  \/ FinishFailed
  \/ FinishTerminal

\* Weak fairness of InsideInstruction, WF_vars(InsideInstruction), written
\* out with what enables it: inside an instruction (mode = "exec") the next
\* pass of the loop or the return is enabled, between instructions nothing
\* of it is.
Sequential ==
  \/ []<>(mode = "idle")
  \/ []<><< InsideInstruction >>_vars

SpecExecute == Init /\ [][NextExecute]_vars /\ Sequential

\* ================================================================ properties
Min(a, b) == IF a < b THEN a ELSE b

HasStorageWrite(l) == \E i \in 1..Len(l.journal) : l.journal[i].k = "storage"

\* ------------------------------------------------------------------------ C1
\* C1: at every boundary between Machine operations (after call_begin or
\* create_begin, after each handled Call or Create trap, after each handled
\* frame exit, whenever execute_n_steps returns Ok) the number of substate
\* logs entered above the root log equals the number of frames on the stack.
C1_depth_equals_frames ==
  mode = "exec" => depth(substate) = Len(runtime)

\* ------------------------------------------------------------------------ C2
Terminal(r) == [data |-> r.data, reason |-> r.reason, sub |-> r.m.sub]

\* A transaction is under way: inside a slice that has not terminated it, or
\* saved in the storage account between two slices.
InSlice == mode = "exec" /\ result.res = "Running"

BetweenSlices == mode = "idle" /\ storageAcct # <<>>

\* The Machine of the transaction under way.
Current ==
  IF mode = "exec" THEN Machine(runtime, substate) ELSE restore(storageAcct)

\* The Machine the transaction under way began with: its bottom frame tells
\* whether call_begin or create_begin made it, and with which init code.
Begun(bottom) ==
  IF bottom.reason = "Call"
  THEN call_begin(Machine_new, Caller, Contract).m
  ELSE create_begin(Machine_new, Caller, bottom.code).m

\* What one execute() call ends with on the transaction under way.
OneShotResult == Terminal(execute(Begun(Current.runtime[1])))

\* C2: however the execution of a transaction is split into slices (begin,
\* execute_n_steps(k1), save_into; then restore, execute_n_steps(ki),
\* save_into), the terminal (return_data, exit_reason) and the final substate
\* are those of one execute() call on the same transaction: at every point
\* of every slicing execute() would still end as the one-shot execution
\* does, and the Err a slice returns is that result.
C2_slices_end_as_execute ==
  [][ /\ InSlice \/ BetweenSlices =>
           Terminal(execute(Current)) = OneShotResult
      /\ InSlice /\ result'.res = "Err" =>
           [data |-> result'.data, reason |-> result'.reason, sub |-> substate']
             = OneShotResult ]_vars

\* A transaction that ended in a Continue slice after effects were journaled.
C2_witness ==
  /\ mode = "exec" /\ instr = "Continue" /\ result.res = "Err"
  /\ is_succeed(result.reason)
  /\ Len(substate[1].journal) > 3
  /\ runtime = <<>>

\* ------------------------------------------------------------------------ C3
\* C3: for every Machine M reachable between slices, restore(save_into(M))
\* has the same frames in the same order, each with the same CreateReason
\* marker, and the same substate as M (so that execute_n_steps goes on from
\* the restored Machine as it would from M).
C3_restore_inverts_save_into ==
  mode = "exec" /\ result.res = "Running" =>
    LET M == Machine(runtime, substate)
        R == restore(save_into(M, StorageAccount_new(Caller, nonce[Caller])))
    IN /\ Len(R.runtime) = Len(runtime)
       /\ \A i \in 1..Len(runtime) : R.runtime[i] = runtime[i]
       /\ R.sub = substate
       /\ execute_n_steps(R, MaxStepCount) = execute_n_steps(M, MaxStepCount)

\* A slice that ends with a Create frame above a Call frame and is saved.
C3_witness ==
  /\ mode = "exec" /\ result.res = "Running" /\ steps >= n
  /\ Len(runtime) >= 2
  /\ runtime[1].reason = "Call"
  /\ runtime[Len(runtime)].reason = "Create"
  /\ Len(substate[1].journal) > 0
  /\ restore(save_into(Machine(runtime, substate),
                       StorageAccount_new(Caller, nonce[Caller])))
       = Machine(runtime, substate)

\* ------------------------------------------------------------------------ C4
\* The substate exit a popped frame calls for.
ExpectedExit(e) ==
  CASE is_succeed(e.reason) /\ e.create_reason = "Create"
         /\ Len(Prog(e.return_value)) > create_contract_limit -> "exit_discard"
    [] is_succeed(e.reason) -> "exit_commit"
    [] is_revert(e.reason) -> "exit_revert"
    [] OTHER -> "exit_discard"

\* C4: every frame popped from the stack comes with exactly one substate
\* exit, chosen by the exit reason (Succeed: exit_commit, Revert:
\* exit_revert, Error or Fatal: exit_discard, a Create that succeeds with
\* code longer than create_contract_limit: exit_discard); no frame is popped
\* with no or with two exits and no exit happens without a pop.
C4_one_exit_per_pop ==
  [][ mode = "exec" /\ mode' = "exec" =>
        /\ ev'.popped = 1 => ev'.exits = << ExpectedExit(ev') >>
        /\ ev'.popped = 0 => ev'.exits = <<>>
        /\ Len(runtime') < Len(runtime) =>
             /\ ev'.popped = 1
             /\ Len(runtime') = Len(runtime) - 1
             /\ depth(substate') = depth(substate) - 1
        /\ depth(substate') < depth(substate) => Len(runtime') < Len(runtime)
    ]_vars

\* A Create frame that returned too much code was popped with exit_discard.
C4_witness ==
  /\ ev.op = "apply_exit" /\ ev.popped = 1
  /\ is_succeed(ev.reason) /\ ev.create_reason = "Create"
  /\ ev.exits = << "exit_discard" >>
  /\ runtime # <<>>

\* ------------------------------------------------------------------------ C5
\* C5 (as stated): execute_n_steps returns Err only when the frame stack is
\* empty after the pop of the exiting frame.
C5_err_only_on_empty_stack ==
  mode = "exec" /\ result.res = "Err" => runtime = <<>>

\* C5 (amended): execute_n_steps returns Err when the frame stack is empty
\* after the pop, or when the popped child exited with a Fatal (then with
\* empty return data and that Fatal as the reason, the parent still on the
\* stack); a child that exits with Succeed, Revert or Error while a parent
\* remains has its result delivered to the parent and execution continues.
C5_err_on_empty_stack_or_fatal_child ==
  mode = "exec" =>
    /\ result.res = "Err" =>
         \/ runtime = <<>>
         \/ /\ ev.popped = 1 /\ is_fatal(ev.reason)
            /\ result.reason = ev.reason /\ result.data = 0
    /\ ev.op = "apply_exit" /\ ev.popped = 1 /\ runtime # <<>>
         /\ ~is_fatal(ev.reason)
       => /\ result.res = "Running"
          /\ Len(TopFrame(Machine(runtime, substate)).stack) > 0

\* A child exited with a Fatal and the transaction ended with its parent
\* still on the stack.
C5_witness ==
  /\ mode = "exec" /\ result.res = "Err" /\ runtime # <<>>
  /\ ev.popped = 1 /\ is_fatal(ev.reason)

\* ------------------------------------------------------------------------ C6
\* C6: when a non-root frame exits with Revert, Error or Fatal, everything
\* recorded by that frame and by the descendants that committed into it is
\* gone from the substate, and the logs of its ancestors are as they were
\* when the frame was entered.
C6_failed_frame_is_dropped ==
  [][ mode = "exec" /\ mode' = "exec" =>
        \* no pass of the loop touches a log below the running frame's
        /\ \A i \in 1..(Min(Len(substate), Len(substate')) - 1) :
             substate'[i] = substate[i]
        \* a failed child leaves the substate without its log
        /\ Len(runtime) >= 2 /\ ev'.op = "apply_exit" /\ ev'.popped = 1
             /\ ~is_succeed(ev'.reason)
           => substate' = SubSeq(substate, 1, Len(substate) - 1) ]_vars

\* A reverted child that had written storage, under a parent whose own
\* write is still journaled.
C6_witness ==
  /\ mode = "exec" /\ ev.op = "apply_exit" /\ ev.popped = 1
  /\ is_revert(ev.reason)
  /\ Len(runtime) = 1
  /\ HasStorageWrite(Top(substate))
  /\ \A i \in 1..Len(Top(substate).journal) :
       Top(substate).journal[i].addr # Callee \/ Top(substate).journal[i].k = "touch"

\* ------------------------------------------------------------------------ C7
\* C7: when a transaction ends with Revert, Error or Fatal, none of its
\* journaled effects reach the host accounts, in the one-shot call, the
\* finalize and the Continue path alike: nothing is applied and no OnEvent
\* is emitted unless the exit reason is a Succeed.
C7_failure_applies_nothing ==
  [][ /\ mode = "exec" /\ mode' = "idle"
      /\ result.res = "Err" /\ ~is_succeed(result.reason)
      => /\ code' = code /\ nonce' = nonce /\ storage' = storage
         /\ \A i \in 1..Len(emitted') : emitted'[i].name # "OnEvent" ]_vars

\* A Continue slice ended the transaction with a Revert and reported it.
C7_witness ==
  /\ mode = "idle"
  /\ status = Status("Continue", "Ok", "Revert")
  /\ emitted = << [name |-> "OnReturn", a |-> 208, b |-> 0] >>
  /\ storage = [a \in Addr |-> 0]

\* ------------------------------------------------------------------------ C8
\* C8: after a signed transaction ends with Error or Fatal, in the one-shot
\* CallFromRawEthereumTX or in the terminating Continue slice, the caller's
\* stored transaction count is one greater than before the transaction.
C8_failure_increments_trx_count ==
  [][ /\ mode = "exec" /\ mode' = "idle"
      /\ instr \in {"CallFromRawEthereumTX", "Continue"}
      /\ result.res = "Err"
      /\ (is_error(result.reason) \/ is_fatal(result.reason))
      => nonce'[Caller] = nonce[Caller] + 1 ]_vars

\* ------------------------------------------------------------------------ C9
\* Frame i is suspended in a STATICCALL: the opcode it trapped on.
InStaticCall(i) ==
  /\ i < Len(runtime)
  /\ runtime[i].pc > 1
  /\ runtime[i].pc - 1 <= Len(Prog(runtime[i].code))
  /\ Prog(runtime[i].code)[runtime[i].pc - 1].op = "SCALL"

\* C9: a frame entered through a static call, and every frame entered
\* beneath it, executes in static mode: its log is static and no storage
\* write is recorded in it.
C9_static_call_is_static ==
  mode = "exec" =>
    \A i \in 1..Len(runtime) :
      (\E j \in 1..(i - 1) : InStaticCall(j)) =>
        /\ substate[i + 1].is_static
        /\ ~HasStorageWrite(substate[i + 1])

\* ----------------------------------------------------------------------- C10
\* C10: when a Continue slice uses up its step_count and execute_n_steps
\* returns Ok, the frame stack is not empty, the instruction succeeds, the
\* snapshot is written to the storage account, nothing is applied, nothing
\* is emitted and the accounts stay blocked; StepLimitReached never reaches
\* apply_exit (which would panic) nor invoke_on_return.
C10_exhausted_slice_is_saved ==
  [][ /\ (mode = "exec" /\ mode' = "idle" /\ instr = "Continue"
          /\ result.res = "Running"
          => /\ runtime # <<>>
             /\ status' = Status("Continue", "Ok", "none")
             /\ storageAcct' = save_into(Machine(runtime, substate), storageAcct)
             /\ restore(storageAcct') = Machine(runtime, substate)
             /\ code' = code /\ nonce' = nonce /\ storage' = storage
             /\ emitted' = <<>>
             /\ blocked /\ blocked')
      /\ ~(ev'.op = "apply_exit" /\ ev'.reason = "StepLimitReached")
      /\ result'.res # "Panic"
      /\ status'.reason # "StepLimitReached" ]_vars

\* A Continue slice that ran out of steps inside a nested frame and was
\* saved.
C10_witness ==
  /\ mode = "idle"
  /\ status = Status("Continue", "Ok", "none")
  /\ blocked
  /\ storageAcct # <<>>
  /\ Len(restore(storageAcct).runtime) >= 2
  /\ emitted = <<>>

\* ----------------------------------------------------------------------- C11
\* What a rejected Continue or Cancel reports.
Rejections == {"StorageAccountUninitialized", "InvalidAccountData"}

\* The instruction that ends here is a Continue slice that terminated the
\* transaction (with success or with failure).
TerminatingContinue ==
  mode = "exec" /\ mode' = "idle" /\ instr = "Continue" /\ result.res = "Err"

\* The instruction that ran here is an accepted Cancel.
AcceptedCancel ==
  mode = "idle" /\ storageAcct # <<>> /\ status' = Status("Cancel", "Ok", "none")

\* C11: the accounts an iterative transaction blocked are unblocked, and its
\* snapshot destroyed, exactly when the transaction ends: by a Continue
\* slice that terminates (with success or with failure) or by Cancel; a
\* slice that does not terminate never unblocks them; once the transaction
\* has ended, a further Continue or Cancel on the storage account is
\* rejected and changes nothing.
C11_unblocked_exactly_at_the_end ==
  [][ /\ blocked <=> storageAcct # <<>>
      /\ blocked /\ ~blocked' => TerminatingContinue \/ AcceptedCancel
      /\ storageAcct # <<>> /\ storageAcct' = <<>> =>
           TerminatingContinue \/ AcceptedCancel
      /\ TerminatingContinue \/ AcceptedCancel =>
           ~blocked' /\ storageAcct' = <<>>
      /\ mode = "exec" /\ mode' = "idle" /\ result.res = "Running"
           /\ (blocked \/ status'.result = "Ok") =>
           blocked' /\ storageAcct' # <<>>
      /\ mode = "idle" /\ storageAcct = <<>>
           /\ status'.instr \in {"Continue", "Cancel"} =>
           /\ mode' = "idle"
           /\ UNCHANGED << code, nonce, storage, storageAcct, blocked >>
           /\ status' # status => status'.result \in Rejections
    ]_vars

\* A Continue slice has terminated the transaction with a failure while its
\* accounts are blocked: the instruction is about to return.
C11_witness ==
  /\ mode = "exec" /\ instr = "Continue" /\ blocked /\ storageAcct # <<>>
  /\ result.res = "Err" /\ ~is_succeed(result.reason)

\* ----------------------------------------------------------------------- C12
\* The instructions of an iterative transaction on this storage account, and
\* those on the other one.
IterativeInstr == Starts \cup {"Continue", "Cancel"}

OtherInstr == {"OtherStart", "OtherContinue", "OtherCancel"}

\* The step is the return of an instruction that was accepted.
Accepted(names) ==
  status' # status /\ mode' = "idle" /\ status'.instr \in names
  /\ status'.result = "Ok"

\* C12: two iterative transactions whose account lists have an account in
\* common are never in progress together: while the accounts of one are
\* blocked, an instruction of the other storage account is accepted only if
\* its list is disjoint (one listing a blocked account is rejected, and a
\* rejected instruction changes nothing), and the other way round.
C12_common_accounts_serialize ==
  [][ /\ ~(blocked /\ other = "Common")
      /\ ~(blocked' /\ other' = "Common")
      /\ blocked /\ Accepted(OtherInstr) =>
           other = "Disjoint" \/ other' = "Disjoint"
      /\ other = "Common" => ~Accepted(IterativeInstr)
      /\ status' # status /\ mode' = "idle"
           /\ status'.instr \in IterativeInstr \cup OtherInstr
           /\ status'.result # "Ok" =>
           UNCHANGED << code, nonce, storage, storageAcct, blocked, other >>
    ]_vars

\* While this transaction's accounts are blocked, a start on the other
\* storage account with a list that has an account in common was rejected.
C12_witness ==
  /\ blocked /\ other = "Empty" /\ mode = "idle"
  /\ status = Status("OtherStart", "InvalidAccountData", "none")

\* Transactions over disjoint account lists are in progress together: this
\* one runs a later slice while the other one is between its slices.
C12_disjoint_interleave ==
  blocked /\ other = "Disjoint" /\ mode = "exec" /\ instr = "Continue"

\* ----------------------------------------------------------------------- C13
\* C13: an accepted Cancel increments the caller's stored transaction count
\* by exactly one, unblocks the transaction's accounts and destroys the
\* snapshot; it runs no EVM step and applies nothing the cancelled
\* transaction journaled (no code, no storage, no other nonce, no event).
C13_cancel_increments_trx_count ==
  [][ AcceptedCancel =>
        /\ nonce'[Caller] = nonce[Caller] + 1
        /\ \A a \in Addr \ {Caller} : nonce'[a] = nonce[a]
        /\ ~blocked' /\ storageAcct' = <<>>
        /\ mode' = "idle" /\ steps' = steps /\ runtime' = runtime
        /\ code' = code /\ storage' = storage /\ emitted' = <<>>
    ]_vars

\* ----------------------------------------------------------------------- C14
\* The step is the first of a host instruction that carries a signed
\* transaction.
SignedInstr == mode = "idle" /\ status'.trx.signed

\* C14: a signed transaction whose recovered sender is not the caller
\* account's ether address, or whose nonce is not the account's trx_count, or
\* whose chain id is not the program's, is rejected with InvalidArgument:
\* no Machine is built and no EVM step runs, no snapshot is written, no
\* account is blocked and the host accounts are left as they were.  Any other
\* signed transaction gets past the check.
C14_bad_authority_is_rejected ==
  [][ SignedInstr =>
        IF \/ ~status'.trx.from_ok
           \/ status'.trx.nonce # nonce[Caller]
           \/ ~status'.trx.chain_ok
        THEN /\ status'.result = "InvalidArgument"
             /\ mode' = "idle" /\ runtime' = <<>> /\ steps' = 0
             /\ storageAcct' = storageAcct /\ storageAcct' = <<>>
             /\ ~blocked'
             /\ UNCHANGED << code, nonce, storage, other >>
        ELSE mode' = "exec" /\ status'.result = "pending"
    ]_vars

\* An iterative start was rejected for its nonce alone.
C14_witness ==
  /\ status.instr = "PartialCallFromRawEthereumTX"
  /\ status.result = "InvalidArgument"
  /\ status.trx.signed /\ status.trx.from_ok /\ status.trx.chain_ok
  /\ status.trx.nonce # nonce[Caller]
  /\ mode = "idle" /\ storageAcct = <<>> /\ ~blocked

Issuing ==
  mode = "exec" /\ runtime # <<>> /\ result.res = "Running"
  /\ CurOp(TopFrame(Current)).op \in {"CALL", "SCALL", "CREATE"}

\* What the opcode at the top frame's pc does.
Issued == StepOp(TopFrame(Current), substate)

Creating ==
  Issuing /\ CurOp(TopFrame(Current)).op = "CREATE" /\ ~TooDeep(substate)

\* The address the scheme gives, and what handler.create answers.
Target ==
  CreateAddress(TopFrame(Current).address,
                state_nonce(substate, TopFrame(Current).address))

Answer ==
  create(substate, TopFrame(Current).address, CurOp(TopFrame(Current)).a)

\* C16: when the depth check passes, handler.create answers
\* Exit(CreateCollision) exactly when the target address has code or a
\* non-zero nonce, and otherwise a CreateInterrupt trap that carries the init
\* code, the context (address, caller) and the address.  Either way it
\* enters no substate log (it journals the caller's nonce increment in the
\* current one), and the interpreter's frame is the only frame it touches.
C16_create_collides_or_traps ==
  Creating =>
    /\ Answer.capture = "Exit" <=>
         \/ state_code(substate, Target) # 0
         \/ state_nonce(substate, Target) > 0
    /\ Answer.capture = "Exit" =>
         Answer.reason = "CreateCollision" /\ Issued.kind = "next"
    /\ Answer.capture # "Exit" =>
         /\ Answer.capture = "Trap" /\ Issued.kind = "create"
         /\ Issued.interrupt.init_code = CurOp(TopFrame(Current)).a
         /\ Issued.interrupt.address = Target
         /\ Issued.interrupt.caller = TopFrame(Current).address
    /\ Len(Answer.sub) = Len(substate)
    /\ Answer.sub = inc_nonce(substate, TopFrame(Current).address)
    /\ Issued.fr.address = TopFrame(Current).address
    /\ Issued.fr.pc = TopFrame(Current).pc + 1

\* A CREATE is about to be issued on an address that has code already.
C16_witness ==
  Creating /\ state_code(substate, Target) # 0 /\ Answer.capture = "Exit"

\* ----------------------------------------------------------------------- C17
\* create_begin has just run on a new Machine.
CreateBegun == mode = "exec" /\ ev.op = "create_begin"

\* The address CreateScheme::Legacy gives the top-level create.
NewAddress == CreateAddress(Caller, nonce[Caller])

\* What create_begin journals on the Trap arm, after the caller's nonce
\* increment handler.create made.
CreateBeginJournal ==
  << Effect("nonce", Caller, 0), Effect("touch", NewAddress, 0),
     Effect("reset", NewAddress, 0) >>
  \o (IF create_increase_nonce THEN << Effect("nonce", NewAddress, 0) >>
      ELSE <<>>)

\* C17: when handler.create exits immediately, create_begin returns
\* Err(InvalidInstructionData) and pushes no frame; otherwise it touches the
\* new address, resets its storage, increments its nonce (when
\* create_increase_nonce is set) and pushes exactly one frame, marked
\* Create(address), at the start of the init code with an empty stack.
C17_create_begin_fails_or_pushes_one ==
  CreateBegun =>
    IF create(enter(substate_new, FALSE), Caller, 0).capture = "Exit"
    THEN /\ result.res = "Failed"
         /\ result.reason = "InvalidInstructionData"
         /\ runtime = <<>>
    ELSE /\ result.res = "Running"
         /\ Len(runtime) = 1
         /\ runtime[1].reason = "Create"
         /\ runtime[1].address = NewAddress
         /\ runtime[1].caller = Caller
         /\ runtime[1].code \in InitCodes
         /\ runtime[1].pc = 1 /\ runtime[1].stack = <<>>
         /\ Top(substate).journal = CreateBeginJournal
         /\ state_storage(substate, NewAddress) = 0
         /\ state_nonce(substate, NewAddress) =
              nonce[NewAddress] + (IF create_increase_nonce THEN 1 ELSE 0)

\* create_begin failed on an address that holds code already.
C17_witness ==
  CreateBegun /\ result.res = "Failed" /\ code[NewAddress] # 0

\* ----------------------------------------------------------------------- C18
\* The step pops a Create frame: the frame on top of the stack has exited.
CreateExit == mode = "exec" /\ ev'.op = "apply_exit" /\ ev'.create_reason = "Create"

\* The address the exiting Create frame is marked with.
CreatedAddress == runtime[Len(runtime)].address

\* The substate journals a code for the address.
CodeSet(sub, addr) ==
  \E i \in 1..Len(Journal(sub)) :
    Journal(sub)[i].k = "code" /\ Journal(sub)[i].addr = addr

\* What the step leaves on the parent's stack, when there is a parent.
Received(v) ==
  /\ Len(runtime') = Len(runtime) - 1
  /\ runtime'[Len(runtime')].stack =
       Append(runtime[Len(runtime) - 1].stack, v)

\* The step ends execute_n_steps with Err((_, reason)).
Ends(reason) == result'.res = "Err" /\ result'.reason = reason

\* C18: when a Create frame exits with a Succeed and code no longer than
\* create_contract_limit, its log is committed, the code is set at the
\* created address and the parent receives that address; with a Succeed and
\* longer code the reason becomes CreateContractLimit, the log is discarded
\* and no code is set; on any other reason no code is set and the parent
\* receives the zero address.  A root Create frame ends the execution with
\* that (possibly converted) reason.
C18_create_exit ==
  [][ CreateExit =>
        IF is_succeed(ev'.reason)
           /\ Len(Prog(ev'.return_value)) <= create_contract_limit
        THEN /\ ev'.exits = << "exit_commit" >>
             /\ state_code(substate', CreatedAddress) = ev'.return_value
             /\ CodeSet(substate', CreatedAddress)
             /\ IF Len(runtime) > 1 THEN Received(CreatedAddress)
                ELSE Ends(ev'.reason)
        ELSE IF is_succeed(ev'.reason)
        THEN /\ ev'.exits = << "exit_discard" >>
             /\ ~CodeSet(substate', CreatedAddress)
             /\ IF Len(runtime) > 1 THEN Received(ZeroAddress)
                ELSE Ends("CreateContractLimit")
        ELSE /\ ~CodeSet(substate', CreatedAddress)
             /\ IF Len(runtime) > 1 THEN Received(ZeroAddress)
                ELSE Ends(ev'.reason)
    ]_vars

\* A root Create frame has exited with a Succeed and code longer than
\* create_contract_limit.
C18_witness ==
  /\ mode = "exec" /\ ev.op = "apply_exit" /\ ev.create_reason = "Create"
  /\ is_succeed(ev.reason)
  /\ Len(Prog(ev.return_value)) > create_contract_limit
  /\ runtime = <<>> /\ result.res = "Err"
  /\ result.reason = "CreateContractLimit"

\* ----------------------------------------------------------------------- C19
\* The step is one pass of the execute_n_steps loop.
LoopPass == mode = "exec" /\ mode' = "exec"

\* The step is the return of an instruction whose execute_n_steps returned
\* Ok(()): the Machine was saved.
ReturnedOk ==
  /\ mode = "exec" /\ mode' = "idle" /\ instr \in Starts \cup {"Continue"}
  /\ status'.result = "Ok" /\ storageAcct' # <<>>

\* C19: within one execute_n_steps(n) the steps the interpreter reports add
\* up to at most n: a run is made only while steps < n, with the budget
\* n - steps, and reports no more than that.  Ok(()) is returned only with
\* the sum at n and the transaction not terminated.  With n = 0 no pass of
\* the loop is made: the call returns Ok(()) with the Machine as it was.
C19_steps_within_budget ==
  [][ /\ mode = "exec" => steps <= n
      /\ LoopPass =>
           /\ steps < n /\ result.res = "Running"
           /\ steps' >= steps /\ steps' - steps <= n - steps
           /\ n' = n
      /\ ReturnedOk => steps = n /\ result.res = "Running"
      /\ mode = "exec" /\ n = 0 /\ result.res = "Running" =>
           /\ mode' = "idle" /\ steps = 0
           /\ instr \in Starts \cup {"Continue"}
    ]_vars

\* The budget is used up after several runs: frames were pushed on the way.
C19_witness ==
  /\ mode = "exec" /\ result.res = "Running"
  /\ steps = n /\ n = MaxStepCount /\ Len(runtime) > 1

\* ----------------------------------------------------------------------- C20
\* execute() is under way: a one-shot instruction is inside its loop.
Executing == mode = "exec" /\ instr \in OneShot /\ result.res = "Running"

\* execute() has returned Err((return_data, exit_reason)).
Returned ==
  mode = "exec" /\ instr \in OneShot /\ result.res = "Err"
  /\ result.reason \in Succeeds \cup {"Revert"} \cup Errors \cup Fatals

\* The next pass of the loop is there to be made: the budget is not used up
\* and the run ends in a trap or an exit for the Machine to apply.
Proceeds ==
  /\ steps < n
  /\ loop_iter(Machine(runtime, substate), n, steps).apply
       \in {"Call", "Create", "Exit"}

\* C20: execute() terminates with a terminal (return_data, exit_reason):
\* every pass of the execute_n_steps loop advances the step counter, pushes
\* a frame, pops a frame or returns, and the loop is left in the end.
C20_execute_terminates ==
  /\ [][ LoopPass =>
           \/ steps' > steps
           \/ Len(runtime') # Len(runtime)
           \/ result'.res # "Running" ]_vars
  /\ [](Executing => Proceeds)
  /\ [](mode = "exec" /\ ~Executing => result.res \in {"Err", "Failed", "Panic"})
  /\ Executing ~> Returned

\* execute() returned after more passes than a slice of MaxStepCount steps
\* holds, with the frame stack empty.
C20_witness ==
  mode = "exec" /\ instr \in OneShot /\ result.res = "Err"
  /\ steps > MaxStepCount /\ runtime = <<>>

\* ---------------------------------------------------------------------- C21
\* Every terminal exit reason the EVM can hand to invoke_on_return.
ExitReasons == Succeeds \cup {"Revert"} \cup Errors \cup Fatals

MaxResult == 2

\* do_call / do_finalize with Err((result, exit_reason)) in hand, for every
\* exit reason of the EVM and not only those the opcodes of Progs produce.
InitReturn ==
  /\ code = [a \in Addr |-> IF a = Contract THEN 1 ELSE 0]
  /\ nonce = [a \in Addr |-> 0]
  /\ storage = [a \in Addr |-> 0]
  /\ storageAcct = <<>>
  /\ blocked = FALSE
  /\ other = "Empty"
  /\ runtime = <<>>
  /\ substate = substate_new
  /\ mode = "exec"
  /\ instr \in OneShot
  /\ n = U64_MAX
  /\ steps \in 1..MaxStepCount
  /\ \E r \in ExitReasons, d \in 0..MaxResult :
       result = [res |-> "Err", data |-> d, reason |-> r]
  /\ ev = NoEv
  /\ emitted = <<>>
  /\ status = Status("none", "none", "none")
  /\ Unused

SpecReturn == InitReturn /\ [][FinishTerminal]_vars

\* The status byte of the on_return instruction the last instruction emitted.
ReturnedByte == emitted[Len(emitted)].a

HighNibble(b) == b \div 16

\* C21: invoke_on_return gives Stopped 0x11, Returned 0x12, Suicided 0x13,
\* Revert 0xd0, the Error variants bytes of 0xe1..0xed and the Fatal variants
\* bytes of 0xf1..0xf3; no other exit reason has the byte of the reason
\* returned, and the high nibble of the byte tells the class of the reason.
C21_exit_status_bytes ==
  status.reason \in ExitReasons =>
    /\ emitted # <<>> /\ emitted[Len(emitted)].name = "OnReturn"
    /\ status.reason = "Stopped" => ReturnedByte = 17
    /\ status.reason = "Returned" => ReturnedByte = 18
    /\ status.reason = "Suicided" => ReturnedByte = 19
    /\ status.reason = "Revert" => ReturnedByte = 208
    /\ status.reason \in Errors => ReturnedByte \in 225..237
    /\ status.reason \in Fatals => ReturnedByte \in 241..243
    /\ \A r \in ExitReasons \ {status.reason} : exit_status(r) # ReturnedByte
    /\ is_succeed(status.reason) <=> HighNibble(ReturnedByte) = 1
    /\ is_revert(status.reason) <=> HighNibble(ReturnedByte) = 13
    /\ is_error(status.reason) <=> HighNibble(ReturnedByte) = 14
    /\ is_fatal(status.reason) <=> HighNibble(ReturnedByte) = 15

\* on_return was emitted for the last Error variant, which no program of
\* Progs ends with.
C21_witness ==
  /\ status.reason = "CreateEmpty"
  /\ emitted = << [name |-> "OnReturn", a |-> 237, b |-> MaxResult] >>

\* ---------------------------------------------------------------------- C22
MaxEmissions == 3
MaxEntered == 2

\* What the frames emit here: storage writes, where the last one applied
\* stays, and logs, which the host passes on one by one.
Emitted == {Effect("storage", Contract, 1), Effect("storage", Contract, 2),
            Effect("log", Contract, 1)}

\* What the contract's slot holds when the transaction starts.
StoredBefore == {0, 3}

\* An instruction is executing and the substate holds the root log alone.
InitJournal ==
  /\ code = [a \in Addr |-> IF a = Contract THEN 1 ELSE 0]
  /\ nonce = [a \in Addr |-> 0]
  /\ \E v \in StoredBefore : storage = [a \in Addr |-> IF a = Contract THEN v ELSE 0]
  /\ storageAcct = <<>>
  /\ blocked = FALSE
  /\ other = "Empty"
  /\ runtime = <<>>
  /\ substate = substate_new
  /\ mode = "exec"
  /\ instr = "CallFromRawEthereumTX"
  /\ n = U64_MAX
  /\ steps = 0
  /\ result = Running
  /\ ev = NoEv
  /\ emitted = <<>>
  /\ status = Status(instr, "pending", "none")
  /\ history = [NoHistory EXCEPT !.original = storage]
  /\ Uncalled

Journaling(sub, h) ==
  /\ mode = "exec" /\ result.res = "Running"
  /\ substate' = sub
  /\ history' = h
  /\ UNCHANGED << code, nonce, storage, storageAcct, blocked, other, runtime,
                  mode, instr, n, steps, result, ev, emitted, status, accounts,
                  invoked >>

\* A frame is entered: state.enter(gas_limit, is_static).
JournalEnter ==
  /\ history.entered < MaxEntered
  /\ Journaling(enter(substate, FALSE),
                [history EXCEPT !.entered = @ + 1,
                                !.open = Append(@, history.entered + 1)])

\* The executing frame emits an action into the top log.
JournalEmit ==
  /\ Len(history.emissions) < MaxEmissions
  /\ \E e \in Emitted :
       Journaling(record(substate, e),
                  [history EXCEPT
                     !.emissions = Append(@, [e |-> e, path |-> history.open])])

Leave(h, committed) ==
  [h EXCEPT !.open = SubSeq(@, 1, Len(@) - 1),
            !.dropped = IF committed THEN @ ELSE @ \cup {h.open[Len(h.open)]}]

\* The executing frame exits: state.exit_commit() / exit_revert() /
\* exit_discard().
JournalCommit ==
  /\ depth(substate) > 0
  /\ Journaling(exit_commit(substate).sub, Leave(history, TRUE))

JournalRevert ==
  /\ depth(substate) > 0
  /\ Journaling(exit_revert(substate).sub, Leave(history, FALSE))

JournalDiscard ==
  /\ depth(substate) > 0
  /\ Journaling(exit_discard(substate).sub, Leave(history, FALSE))

\* The frame stack is empty: execute() returns Err((result, exit_reason)).
JournalEnd ==
  /\ mode = "exec" /\ result.res = "Running"
  /\ depth(substate) = 0
  /\ \E r \in {"Returned", "Revert"} :
       result' = [res |-> "Err", data |-> 0, reason |-> r]
  /\ UNCHANGED << code, nonce, storage, storageAcct, blocked, other, runtime,
                  substate, mode, instr, n, steps, ev, emitted, status, aux >>

NextJournal ==
  \/ JournalEnter
  \/ JournalEmit
  \/ JournalCommit
  \/ JournalRevert
  \/ JournalDiscard
  \/ JournalEnd
  \/ FinishTerminal

SpecJournal == InitJournal /\ [][NextJournal]_vars

\* How many of the frames enclosing an emission are still open: the open
\* frames enclosing it are the outermost ones.
OpenAround(x) ==
  Cardinality({i \in 1..Len(x.path) :
                 \E k \in 1..Len(history.open) : history.open[k] = x.path[i]})

Survives(x) == \A i \in 1..Len(x.path) : x.path[i] \notin history.dropped

EffectsOf(xs) == [i \in 1..Len(xs) |-> xs[i].e]

\* The emissions by frames none of whose enclosing frames was reverted or
\* discarded, of which `level` are still open, in emission order.
Kept(level) ==
  EffectsOf(SelectSeq(history.emissions,
                      LAMBDA x : Survives(x) /\ OpenAround(x) = level))

ApplyOne(st, e) ==
  CASE e.k = "storage" -> [st EXCEPT ![e.addr] = e.v]
    [] e.k = "reset" -> [st EXCEPT ![e.addr] = 0]
    [] OTHER -> st

\* The actions of j applied to the storage st one after the other.
RECURSIVE ApplyInOrder(_, _)
ApplyInOrder(st, j) ==
  IF j = <<>> THEN st ELSE ApplyInOrder(ApplyOne(st, Head(j)), Tail(j))

\* C22: each log of the substate holds, in emission order, exactly the
\* actions of the frames whose enclosing frames up to that log's frame all
\* committed and none of which was reverted or discarded, so that the root
\* log holds those all of whose enclosing frames committed; after a
\* successful end the host has applied these one after the other in that
\* order and passed the logs on in that order, and after a failed end it has
\* applied none.
C22_actions_kept_in_emission_order ==
  /\ mode = "exec" =>
       \A k \in 1..Len(substate) : substate[k].journal = Kept(k - 1)
  /\ mode = "idle" /\ is_succeed(status.reason) =>
       /\ storage = ApplyInOrder(history.original, Kept(0))
       /\ emitted = OnEvents(Kept(0)) \o
                    << [name |-> "OnReturn", a |-> exit_status(status.reason),
                        b |-> 0] >>
  /\ mode = "idle" /\ status.reason \in ExitReasons \ Succeeds =>
       /\ storage = history.original
       /\ Len(emitted) = 1

\* The host has applied the two storage writes of a committed frame one
\* after the other, so that the second one's value stays, while the write
\* that a reverted frame nested in it emitted between them was dropped.
C22_witness ==
  /\ mode = "idle" /\ is_succeed(status.reason)
  /\ Len(history.emissions) = 3
  /\ history.emissions[1].e = Effect("storage", Contract, 2)
  /\ history.emissions[2].e = Effect("storage", Contract, 2)
  /\ history.emissions[3].e = Effect("storage", Contract, 1)
  /\ Len(history.emissions[2].path) = 2
  /\ ~Survives(history.emissions[2])
  /\ Len(Kept(0)) = 2
  /\ storage[Contract] = 1

MaxBalance == 2

None == <<>>
Some(v) == << v >>

\* keccak::hash(bytes) and <[u8; 32]>::default().
keccak(bytes) == << "keccak", bytes >>
ZeroHash == << "zero" >>

Codes == {<<>>, << 1 >>, << 1, 2 >>}

\* An address as the backend sees it: its contract record, if any, with the
\* code, and its balance account, if any, with nonce and balance.
Address ==
  [contract : {None} \cup {Some(c) : c \in Codes},
   balance : {None} \cup {Some([nonce |-> k, balance |-> b]) :
                            k \in 0..MaxBalance, b \in 0..MaxBalance}]

\* ProgramAccountStorage::code_hash as it would be without the EIP-161 test.
ProgramAccountStorage_code_hash_of_any_account(acc) ==
  IF acc.contract # None THEN keccak(acc.contract[1])
  ELSE IF acc.balance # None THEN keccak(<<>>)
  ELSE ZeroHash

ProgramAccountStorage_code_hash(acc) ==
  IF acc.contract # None THEN keccak(acc.contract[1])
  ELSE IF acc.balance # None
       THEN IF acc.balance[1].nonce > 0 \/ acc.balance[1].balance > 0
            THEN keccak(<<>>)
            ELSE ZeroHash
  ELSE ZeroHash

backend_nonce(acc) == IF acc.balance = None THEN 0 ELSE acc.balance[1].nonce
backend_balance(acc) == IF acc.balance = None THEN 0 ELSE acc.balance[1].balance
backend_code_size(acc) == IF acc.contract = None THEN 0 ELSE Len(acc.contract[1])

\* ExecutorState::exists / is_empty / code_hash over a substate without
\* changes.
state_exists(acc) == acc.contract # None \/ acc.balance # None
state_is_empty(acc) ==
  backend_balance(acc) = 0 /\ backend_nonce(acc) = 0 /\ backend_code_size(acc) = 0
state_code_hash(acc) == ProgramAccountStorage_code_hash(acc)

exists(acc, empty_considered_exists) ==
  IF empty_considered_exists THEN state_exists(acc)
  ELSE state_exists(acc) /\ ~state_is_empty(acc)

code_hash(acc, empty_considered_exists) ==
  IF ~exists(acc, empty_considered_exists) THEN ZeroHash
  ELSE state_code_hash(acc)

InitCodeHash ==
  /\ HostIdle
  /\ history = NoHistory
  /\ accounts \in Address
  /\ invoked = NoCall

Called(c) ==
  /\ invoked = NoCall
  /\ invoked' = c
  /\ UNCHANGED << host, history, accounts >>

AccountStorage_code_hash ==
  Called([fn |-> "AccountStorage::code_hash",
          ret |-> ProgramAccountStorage_code_hash(accounts)])

Handler_code_hash ==
  \E empty_considered_exists \in BOOLEAN :
    Called([fn |-> "Handler::code_hash", arg |-> empty_considered_exists,
            ret |-> code_hash(accounts, empty_considered_exists)])

NextCodeHash == AccountStorage_code_hash \/ Handler_code_hash

SpecCodeHash == InitCodeHash /\ [][NextCodeHash]_vars

IsEmptyAccount ==
  /\ accounts.contract = None \/ accounts.contract = Some(<<>>)
  /\ accounts.balance = None
     \/ accounts.balance = Some([nonce |-> 0, balance |-> 0])

\* C24: the backend's code_hash is keccak(code) for an address with a contract
\* record, keccak of the empty string for one without a contract record whose
\* balance account has a nonce or a balance above 0, and the zero hash for one
\* with no account or with a balance account of nonce 0 and balance 0; the
\* Handler's code_hash is the zero hash wherever Handler.exists is false,
\* which with empty_considered_exists = false is so for every empty account.
C24_code_hash_follows_eip_1052 ==
  /\ invoked.fn = "AccountStorage::code_hash" =>
       /\ accounts.contract # None => invoked.ret = keccak(accounts.contract[1])
       /\ accounts.contract = None /\ accounts.balance # None
          /\ (accounts.balance[1].nonce > 0 \/ accounts.balance[1].balance > 0)
            => invoked.ret = keccak(<<>>)
       /\ accounts.contract = None /\ accounts.balance = None
            => invoked.ret = ZeroHash
       /\ accounts.contract = None
          /\ accounts.balance = Some([nonce |-> 0, balance |-> 0])
            => invoked.ret = ZeroHash
  /\ invoked.fn = "Handler::code_hash" =>
       /\ ~exists(accounts, invoked.arg) => invoked.ret = ZeroHash
       /\ ~invoked.arg /\ IsEmptyAccount =>
            ~exists(accounts, invoked.arg) /\ invoked.ret = ZeroHash

\* The backend was asked for the hash of an address that has a balance
\* account with nonce 0 and balance 0 and no contract record.
C24_witness ==
  /\ invoked.fn = "AccountStorage::code_hash"
  /\ accounts.contract = None
  /\ accounts.balance = Some([nonce |-> 0, balance |-> 0])
  /\ invoked.ret = ZeroHash

\* ---------------------------------------------------------------------- C25
STORAGE_ENTRIES_IN_CONTRACT_ACCOUNT == 64

\* The indices asked for: those of the contract record and of the first three
\* cells.
MaxIndex == 600

\* index & 0xFF and index & !0xFF.
LowByte(index) == index % 256
LowByteCleared(index) == index - (index % 256)

CellKeys == {LowByteCleared(i) : i \in 0..MaxIndex}

\* What the records hold: every slot a value of its own, none of them zero.
storage_value(index) == 1 + index
cell_get(key, subindex) == 1001 + key + subindex

\* storage as it would be if the sub-index were the low seven bits.
ProgramAccountStorage_storage_with_seven_bits(acc, index) ==
  IF index < STORAGE_ENTRIES_IN_CONTRACT_ACCOUNT
  THEN IF acc.contract THEN storage_value(index) ELSE 0
  ELSE IF LowByteCleared(index) \in acc.cells
       THEN cell_get(LowByteCleared(index), index % 128)
       ELSE 0

ProgramAccountStorage_storage(acc, index) ==
  IF index < STORAGE_ENTRIES_IN_CONTRACT_ACCOUNT
  THEN IF acc.contract THEN storage_value(index) ELSE 0
  ELSE IF LowByteCleared(index) \in acc.cells
       THEN cell_get(LowByteCleared(index), LowByte(index))
       ELSE 0

\* The address has a contract record or not, and any of the cells.
InitStorage ==
  /\ HostIdle
  /\ history = NoHistory
  /\ accounts \in [contract : BOOLEAN, cells : SUBSET CellKeys]
  /\ invoked = NoCall

AccountStorage_storage ==
  \E index \in 0..MaxIndex :
    Called([fn |-> "AccountStorage::storage", index |-> index,
            ret |-> ProgramAccountStorage_storage(accounts, index)])

SpecStorage == InitStorage /\ [][AccountStorage_storage]_vars

AllRecords == [contract |-> TRUE, cells |-> CellKeys]

\* C25: storage(address, index) reads slot index of the contract record when
\* index < STORAGE_ENTRIES_IN_CONTRACT_ACCOUNT and otherwise sub-index (low
\* byte of index) of the cell keyed by index with its low byte cleared; no
\* other index reads the location this one reads; a missing contract record
\* or cell gives zero.
C25_storage_location ==
  invoked.fn = "AccountStorage::storage" =>
    /\ invoked.index < STORAGE_ENTRIES_IN_CONTRACT_ACCOUNT =>
         invoked.ret = IF accounts.contract THEN storage_value(invoked.index)
                       ELSE 0
    /\ invoked.index >= STORAGE_ENTRIES_IN_CONTRACT_ACCOUNT =>
         invoked.ret = IF LowByteCleared(invoked.index) \in accounts.cells
                       THEN cell_get(LowByteCleared(invoked.index),
                                     LowByte(invoked.index))
                       ELSE 0
    /\ \A j \in 0..MaxIndex :
         j # invoked.index =>
           ProgramAccountStorage_storage(AllRecords, j)
             # ProgramAccountStorage_storage(AllRecords, invoked.index)

\* An index of the second cell was read, on an address that has this cell
\* and lacks the contract record.
C25_witness ==
  /\ invoked.fn = "AccountStorage::storage"
  /\ invoked.index = 300
  /\ ~accounts.contract
  /\ accounts.cells = {256}
  /\ invoked.ret = cell_get(256, 44)

\* ---------------------------------------------------------------------- C26
Holders == {Caller, Contract, Callee}

\* ExecutorState::transfer: withdraw from the source, deposit to the target.
state_withdraw(acc, source, value) ==
  IF acc.balance[source] < value
  THEN [res |-> "OutOfFund", acc |-> acc]
  ELSE [res |-> "Ok", acc |-> [acc EXCEPT !.balance[source] = @ - value]]

state_deposit(acc, target, value) == [acc EXCEPT !.balance[target] = @ + value]

state_transfer(acc, transfer) ==
  IF state_withdraw(acc, transfer.source, transfer.value).res # "Ok"
  THEN state_withdraw(acc, transfer.source, transfer.value)
  ELSE [res |-> "Ok",
        acc |-> state_deposit(
                  state_withdraw(acc, transfer.source, transfer.value).acc,
                  transfer.target, transfer.value)]

state_reset_balance(acc, address) == [acc EXCEPT !.balance[address] = 0]

state_set_deleted(acc, address) == [acc EXCEPT !.deleted = @ \cup {address}]

Transfer(source, target, value) ==
  [source |-> source, target |-> target, value |-> value]

\* mark_delete as it would be without reset_balance.
mark_delete_without_reset_balance(acc, address, target) ==
  IF state_transfer(acc, Transfer(address, target, acc.balance[address])).res
       # "Ok"
  THEN state_transfer(acc, Transfer(address, target, acc.balance[address]))
  ELSE [res |-> "Ok",
        acc |-> state_set_deleted(
                  state_transfer(acc, Transfer(address, target,
                                               acc.balance[address])).acc,
                  address)]

mark_delete(acc, address, target) ==
  IF state_transfer(acc, Transfer(address, target, acc.balance[address])).res
       # "Ok"
  THEN state_transfer(acc, Transfer(address, target, acc.balance[address]))
  ELSE [res |-> "Ok",
        acc |-> state_set_deleted(
                  state_reset_balance(
                    state_transfer(acc, Transfer(address, target,
                                                 acc.balance[address])).acc,
                    address),
                  address)]

InitMarkDelete ==
  /\ HostIdle
  /\ history = NoHistory
  /\ accounts \in [balance : [Holders -> 0..MaxBalance], deleted : {{}}]
  /\ invoked = NoCall

\* SELFDESTRUCT of a contract, deleted before or not, with any beneficiary.
Handler_mark_delete ==
  \E address \in Holders, target \in Holders :
    /\ invoked' = [fn |-> "Handler::mark_delete", address |-> address,
                   target |-> target, before |-> accounts.balance,
                   ret |-> mark_delete(accounts, address, target).res]
    /\ accounts' = mark_delete(accounts, address, target).acc
    /\ UNCHANGED << host, history >>

SpecMarkDelete == InitMarkDelete /\ [][Handler_mark_delete]_vars

RECURSIVE SumOver(_, _)
SumOver(f, S) ==
  IF S = {} THEN 0
  ELSE LET a == CHOOSE x \in S : TRUE IN f[a] + SumOver(f, S \ {a})

\* C26: mark_delete never fails; after it the address has balance 0 and is
\* marked deleted, and a target other than the address has gained exactly
\* the address's previous balance, the sum of all balances being unchanged.
C26_mark_delete_moves_the_balance ==
  invoked.fn = "Handler::mark_delete" =>
    /\ invoked.ret = "Ok"
    /\ accounts.balance[invoked.address] = 0
    /\ invoked.address \in accounts.deleted
    /\ invoked.target # invoked.address =>
         /\ accounts.balance[invoked.target]
              = invoked.before[invoked.target] + invoked.before[invoked.address]
         /\ SumOver(accounts.balance, Holders) = SumOver(invoked.before, Holders)

\* A contract with a balance was deleted in favour of another account that
\* had a balance of its own.
C26_witness ==
  /\ invoked.fn = "Handler::mark_delete"
  /\ invoked.target # invoked.address
  /\ invoked.before[invoked.address] = MaxBalance
  /\ invoked.before[invoked.target] = 1
  /\ accounts.balance[invoked.target] = MaxBalance + 1
  /\ accounts.balance[invoked.address] = 0

\* A contract with a balance was deleted in favour of itself: its balance is
\* gone.
C26_self_target ==
  /\ invoked.fn = "Handler::mark_delete"
  /\ invoked.target = invoked.address
  /\ invoked.before[invoked.address] > 0
  /\ accounts.balance[invoked.address] = 0

\* ---------------------------------------------------------------------- C27
MaxData == 3

\* AccountData::unpack and AccountData::size: the first byte is the tag; the
\* records other than Empty have a header of one more byte here, a Contract's
\* being its code_size.
Tags == {"Empty", "Account", "Contract", "Storage", "Unknown"}

AccountData_unpack(data) ==
  IF data = <<>> THEN [res |-> "InvalidAccountData"]
  ELSE IF data[1] = "Unknown" THEN [res |-> "InvalidAccountData"]
  ELSE IF data[1] = "Empty" THEN [res |-> "Ok", kind |-> "Empty", size |-> 1]
  ELSE IF data[1] = "Contract"
  THEN [res |-> "Ok", kind |-> "Contract", size |-> 2, code_size |-> data[2]]
  ELSE [res |-> "Ok", kind |-> data[1], size |-> 2]

\* data[offset .. offset+bytes.len()].copy_from_slice(bytes), offset from 0.
copy_from_slice(data, offset, bytes) ==
  [i \in 1..Len(data) |->
     IF i > offset /\ i <= offset + Len(bytes) THEN bytes[i - offset]
     ELSE data[i]]

Refused(err, data) == [res |-> err, data |-> data]

\* do_write as it would be without the code_size guard on a Contract.
do_write_into_any_contract(data, offset, bytes) ==
  IF AccountData_unpack(data).res # "Ok"
  THEN Refused(AccountData_unpack(data).res, data)
  ELSE IF AccountData_unpack(data).kind \in {"Account", "Storage"}
  THEN Refused("InvalidAccountData", data)
  ELSE IF Len(data) < AccountData_unpack(data).size + offset + Len(bytes)
  THEN Refused("AccountDataTooSmall", data)
  ELSE [res |-> "Ok",
        data |-> copy_from_slice(data, AccountData_unpack(data).size + offset,
                                 bytes)]

do_write(data, offset, bytes) ==
  IF AccountData_unpack(data).res # "Ok"
  THEN Refused(AccountData_unpack(data).res, data)
  ELSE IF AccountData_unpack(data).kind \in {"Account", "Storage"}
  THEN Refused("InvalidAccountData", data)
  ELSE IF AccountData_unpack(data).kind = "Contract"
          /\ AccountData_unpack(data).code_size # 0
  THEN Refused("InvalidAccountData", data)
  ELSE IF Len(data) < AccountData_unpack(data).size + offset + Len(bytes)
  THEN Refused("AccountDataTooSmall", data)
  ELSE [res |-> "Ok",
        data |-> copy_from_slice(data, AccountData_unpack(data).size + offset,
                                 bytes)]

\* EvmInstruction::Write { offset, bytes }.
EvmInstruction_Write(acc, offset, bytes) ==
  IF ~acc.owned THEN Refused("InvalidArgument", acc.data)
  ELSE do_write(acc.data, offset, bytes)

\* The bytes after the header: each one tells its place.
Payload(len) == [i \in 1..len |-> 10 + i]

\* The account given to Write: owned by the program or not, with no data at
\* all or a tag, the record's header and up to MaxData bytes after it.
InitWrite ==
  /\ HostIdle
  /\ history = NoHistory
  /\ \E owned \in BOOLEAN, tag \in Tags, code_size \in 0..1, len \in 0..MaxData,
        empty \in BOOLEAN :
       accounts = [owned |-> owned,
                   data |-> IF empty THEN <<>>
                            ELSE IF tag \in {"Empty", "Unknown"}
                            THEN << tag >> \o Payload(len)
                            ELSE << tag, code_size >> \o Payload(len)]
  /\ invoked = NoCall

Written == {<<>>, << 7 >>, << 7, 8 >>}

Write ==
  \E offset \in 0..MaxData, bytes \in Written :
    /\ invoked = NoCall
    /\ invoked' = [fn |-> "Write", offset |-> offset, bytes |-> bytes,
                   before |-> accounts.data,
                   ret |-> EvmInstruction_Write(accounts, offset, bytes).res]
    /\ accounts' = [accounts EXCEPT
                      !.data = EvmInstruction_Write(accounts, offset, bytes).data]
    /\ UNCHANGED << host, history >>

SpecWrite == InitWrite /\ [][Write]_vars

\* The record Write found, by its tag as the claim names it.
IsRecord(data, kinds) == data # <<>> /\ data[1] \in kinds

NotWritable(data) ==
  \/ IsRecord(data, {"Account", "Storage"})
  \/ IsRecord(data, {"Contract"}) /\ data[2] # 0

HeaderSize(data) == IF IsRecord(data, {"Empty", "Unknown"}) THEN 1 ELSE 2

TooSmall(data, offset, bytes) ==
  HeaderSize(data) + offset + Len(bytes) > Len(data)

\* Exactly the bytes at [header + offset, header + offset + length) are those
\* written and every other byte is as before.
Overwritten(before, after, offset, bytes) ==
  /\ Len(after) = Len(before)
  /\ \A i \in 1..Len(before) :
       IF i - 1 >= HeaderSize(before) + offset
          /\ i - 1 < HeaderSize(before) + offset + Len(bytes)
       THEN after[i] = bytes[i - HeaderSize(before) - offset]
       ELSE after[i] = before[i]

\* C27 as stated: InvalidAccountData and no change for an Account record, a
\* Storage record or a Contract record with code_size other than 0;
\* AccountDataTooSmall and no change when header size + offset + length
\* exceeds the data length; in every other case the bytes are overwritten.
C27_write_fails_or_overwrites ==
  invoked.fn = "Write" =>
    IF NotWritable(invoked.before)
    THEN invoked.ret = "InvalidAccountData" /\ accounts.data = invoked.before
    ELSE IF TooSmall(invoked.before, invoked.offset, invoked.bytes)
    THEN invoked.ret = "AccountDataTooSmall" /\ accounts.data = invoked.before
    ELSE /\ invoked.ret = "Ok"
         /\ Overwritten(invoked.before, accounts.data, invoked.offset,
                        invoked.bytes)

\* C27: Write fails with InvalidArgument on an account the program does not
\* own and with InvalidAccountData on data that does not unpack, on an
\* Account record, a Storage record and a Contract record with code_size
\* other than 0; with AccountDataTooSmall when header size + offset + length
\* exceeds the data length; each time the data is left as it was; in every
\* other case exactly the bytes at [header + offset, header + offset +
\* length) are overwritten.
C27_owned_write_fails_or_overwrites ==
  invoked.fn = "Write" =>
    IF ~accounts.owned
    THEN invoked.ret = "InvalidArgument" /\ accounts.data = invoked.before
    ELSE IF invoked.before = <<>> \/ IsRecord(invoked.before, {"Unknown"})
    THEN invoked.ret = "InvalidAccountData" /\ accounts.data = invoked.before
    ELSE IF NotWritable(invoked.before)
    THEN invoked.ret = "InvalidAccountData" /\ accounts.data = invoked.before
    ELSE IF TooSmall(invoked.before, invoked.offset, invoked.bytes)
    THEN invoked.ret = "AccountDataTooSmall" /\ accounts.data = invoked.before
    ELSE /\ invoked.ret = "Ok"
         /\ Overwritten(invoked.before, accounts.data, invoked.offset,
                        invoked.bytes)

\* Two bytes were written into the middle of an empty Contract record's
\* data, a byte before and a byte after them left as they were.
C27_witness ==
  /\ invoked.fn = "Write" /\ invoked.ret = "Ok"
  /\ accounts.owned
  /\ invoked.before = << "Contract", 0, 11, 12, 13 >>
  /\ invoked.offset = 1 /\ invoked.bytes = << 7, 8 >>
  /\ accounts.data = << "Contract", 0, 11, 7, 8 >>

\* ---------------------------------------------------------------- C28, C29
\* The selectors of the match, and one that is none of them.
Creating_selectors == {"createMetadata", "createMasterEdition"}
Reading_selectors == {"isInitialized", "isNFT", "uri", "name", "symbol"}
Selectors == Creating_selectors \cup Reading_selectors \cup {"other"}

\* A 32-byte big-endian word: its value, and whether the value fits the
\* integer type it is converted to (usize, u64).
Word(v) == [fits |-> TRUE, v |-> v]
Wide == [fits |-> FALSE, v |-> 0]
Words == {Word(0), Word(32), Word(96), Word(4000), Wide}

\* Lengths of the input, selector included.
Lengths == {0, 3, 4, 35, 36, 68, 132, 228}

\* The input of the call: its length, its first four bytes when it has them,
\* the word found at every 32-byte boundary after the selector, and whether
\* the bytes taken as a string are UTF-8.
Inputs ==
  [len : Lengths, selector : Selectors, word : Words, utf8 : BOOLEAN]

Fail(err, queue) == [res |-> err, queue |-> queue]

\* The input after input.split_at(4).
Rest(input) == input.len - 4

read_pubkey(len) == IF len < 32 THEN "OutOfBounds" ELSE "Ok"

read_u64(len, word) ==
  IF len < 32 THEN "OutOfBounds"
  ELSE IF ~word.fits THEN "TryFromIntError"
  ELSE "Ok"

read_string(len, word, utf8, offset_position, max_length) ==
  IF len < offset_position + 32 THEN "OutOfBounds"
  ELSE IF ~word.fits THEN "TryFromIntError"
  ELSE IF len < word.v + 32 THEN "OutOfBounds"
  ELSE IF word.v > max_length THEN "OutOfBounds"
  ELSE IF len < word.v + 32 + word.v THEN "OutOfBounds"
  ELSE IF ~utf8 THEN "Custom"
  ELSE "Ok"

\* The first of the results that is an error, or Ok.
FirstError(rs) ==
  IF \A i \in 1..Len(rs) : rs[i] = "Ok" THEN "Ok"
  ELSE rs[CHOOSE i \in 1..Len(rs) :
            rs[i] # "Ok" /\ \A k \in 1..(i - 1) : rs[k] = "Ok"]

\* create_metadata / create_master_edition: state.queue_external_instruction.
Queued(queue, instruction) ==
  [res |-> "Ok", queue |-> Append(queue, instruction)]

createMetadata_arm(queue, input, is_static) ==
  IF is_static THEN Fail("StaticModeViolation", queue)
  ELSE IF FirstError(<< read_pubkey(Rest(input)),
                        read_string(Rest(input), input.word, input.utf8, 32, 256),
                        read_string(Rest(input), input.word, input.utf8, 64, 256),
                        read_string(Rest(input), input.word, input.utf8, 96, 1024)
                     >>) # "Ok"
  THEN Fail(FirstError(<< read_pubkey(Rest(input)),
                          read_string(Rest(input), input.word, input.utf8, 32, 256),
                          read_string(Rest(input), input.word, input.utf8, 64, 256),
                          read_string(Rest(input), input.word, input.utf8, 96, 1024)
                       >>), queue)
  ELSE Queued(queue, "CreateMetadataAccountV3")

createMasterEdition_arm(queue, input, is_static) ==
  IF is_static THEN Fail("StaticModeViolation", queue)
  ELSE IF read_pubkey(Rest(input)) # "Ok"
  THEN Fail(read_pubkey(Rest(input)), queue)
  ELSE IF read_u64(Rest(input) - 32, input.word) # "Ok"
  THEN Fail(read_u64(Rest(input) - 32, input.word), queue)
  ELSE Queued(queue, "CreateMasterEditionV3")

\* isInitialized, isNFT, uri, name, symbol: the mint is read and the metadata
\* account looked up.
reading_arm(queue, input) ==
  IF read_pubkey(Rest(input)) # "Ok" THEN Fail(read_pubkey(Rest(input)), queue)
  ELSE [res |-> "Ok", queue |-> queue]

match_selector(queue, input, is_static) ==
  CASE input.selector = "createMetadata" ->
         createMetadata_arm(queue, input, is_static)
    [] input.selector = "createMasterEdition" ->
         createMasterEdition_arm(queue, input, is_static)
    [] input.selector \in Reading_selectors -> reading_arm(queue, input)
    [] OTHER -> Fail("UnknownPrecompileMethodSelector", queue)

\* metaplex as it would be without the is_static test of the creating arms.
metaplex_without_static_test(queue, input, value, contract_is_address, is_static) ==
  IF value # 0 THEN Fail("Custom", queue)
  ELSE IF ~contract_is_address THEN Fail("Custom", queue)
  ELSE IF input.len < 4 THEN Fail("Panic", queue)
  ELSE match_selector(queue, input, FALSE)

\* metaplex: input.split_at(4) panics on an input of fewer than four bytes.
metaplex(queue, input, value, contract_is_address, is_static) ==
  IF value # 0 THEN Fail("Custom", queue)
  ELSE IF ~contract_is_address THEN Fail("Custom", queue)
  ELSE IF input.len < 4 THEN Fail("Panic", queue)
  ELSE match_selector(queue, input, is_static)

InitMetaplex ==
  /\ HostIdle
  /\ history = NoHistory
  /\ accounts = [queue |-> <<>>]
  /\ invoked = NoCall

\* A CALL, STATICCALL, CALLCODE or DELEGATECALL to the precompile's address.
Metaplex ==
  \E input \in Inputs, value \in 0..1, contract_is_address \in BOOLEAN,
     is_static \in BOOLEAN :
    /\ invoked = NoCall
    /\ invoked' = [fn |-> "metaplex", input |-> input, value |-> value,
                   contract_is_address |-> contract_is_address,
                   is_static |-> is_static,
                   ret |-> metaplex(accounts.queue, input, value,
                                    contract_is_address, is_static).res]
    /\ accounts' = [queue |-> metaplex(accounts.queue, input, value,
                                       contract_is_address, is_static).queue]
    /\ UNCHANGED << host, history >>

SpecMetaplex == InitMetaplex /\ [][Metaplex]_vars

ErrorValues ==
  {"Custom", "StaticModeViolation", "OutOfBounds", "TryFromIntError",
   "UnknownPrecompileMethodSelector"}

HasSelector(sels) == invoked.input.len >= 4 /\ invoked.input.selector \in sels

\* C28: the precompile returns an error and queues nothing when the call
\* carries a value, when context.contract is not the precompile's address,
\* and when it is static and the selector is createMetadata or
\* createMasterEdition, the error then being StaticModeViolation unless one
\* of the first two applies; the reading selectors queue nothing, static or
\* not.
C28_refused_calls_queue_nothing ==
  invoked.fn = "metaplex" =>
    /\ invoked.value # 0 =>
         invoked.ret \in ErrorValues /\ accounts.queue = <<>>
    /\ ~invoked.contract_is_address =>
         invoked.ret \in ErrorValues /\ accounts.queue = <<>>
    /\ invoked.is_static /\ HasSelector(Creating_selectors) =>
         /\ invoked.ret \in ErrorValues /\ accounts.queue = <<>>
         /\ invoked.value = 0 /\ invoked.contract_is_address =>
              invoked.ret = "StaticModeViolation"
    /\ HasSelector(Reading_selectors) => accounts.queue = <<>>

\* A static call of createMetadata with an input that would otherwise be
\* accepted was refused.
C28_witness ==
  /\ invoked.fn = "metaplex" /\ invoked.is_static
  /\ invoked.value = 0 /\ invoked.contract_is_address
  /\ invoked.input = [len |-> 132, selector |-> "createMetadata",
                      word |-> Word(32), utf8 |-> TRUE]
  /\ invoked.ret = "StaticModeViolation" /\ accounts.queue = <<>>

\* The same input in a call that is not static is accepted and queues the
\* instruction.
C28_accepted ==
  /\ invoked.fn = "metaplex" /\ ~invoked.is_static
  /\ invoked.input = [len |-> 132, selector |-> "createMetadata",
                      word |-> Word(32), utf8 |-> TRUE]
  /\ invoked.ret = "Ok" /\ accounts.queue = << "CreateMetadataAccountV3" >>

\* C29: whatever the input, the precompile does not abort; an input shorter
\* than the selector, with an unknown selector or with too few bytes for the
\* mint is answered with UnknownPrecompileMethodSelector or OutOfBounds, and
\* a call answered with an error has queued nothing.
C29_bad_input_is_an_error_value ==
  invoked.fn = "metaplex" =>
    /\ invoked.ret # "Panic"
    /\ invoked.ret # "Ok" => accounts.queue = <<>>
    /\ invoked.value = 0 /\ invoked.contract_is_address
       /\ ~(invoked.is_static /\ HasSelector(Creating_selectors))
       /\ (invoked.input.len < 36 \/ invoked.input.selector = "other")
         => invoked.ret \in {"UnknownPrecompileMethodSelector", "OutOfBounds"}

\* ---------------------------------------------------------------------
\* Action and its two encodings (executor/action.rs).  A value is written
\* with bincode (fixed-width little-endian integers, a u32 variant index,
\* a u64 length before every sequence and byte string) or as JSON (an
\* object keyed by the variant name, byte strings as arrays of numbers)
\* and read back.
\* ---------------------------------------------------------------------

RECURSIVE to_le_bytes(_, _)
to_le_bytes(v, width) ==
  IF width = 0 THEN <<>>
  ELSE << v % 256 >> \o to_le_bytes(v \div 256, width - 1)

RECURSIVE from_le_bytes(_)
from_le_bytes(bytes) ==
  IF bytes = <<>> THEN 0 ELSE Head(bytes) + 256 * from_le_bytes(Tail(bytes))

Filled(len, b) == [i \in 1..len |-> b]

\* Field values the actions are built from.
Address_values == {Filled(20, 0), Filled(20, 171)}
U256_values == {0, 1, 258}
Storage_values == {Filled(32, 0), Filled(32, 7)}
Pubkey_values == {Filled(32, 9)}
AccountMeta_values ==
  {<<>>, << [pubkey |-> Filled(32, 9), is_signer |-> TRUE,
            is_writable |-> FALSE] >>}
Data_values == {<<>>, << 1, 2 >>}
Seeds_values == {<<>>, << << 5 >>, <<>> >>}
Fee_values == {0, 258}
Code_values == {<<>>, << 96, 0 >>}

Action ==
  {[kind |-> "ExternalInstruction", program_id |-> p, accounts |-> m,
    data |-> d, seeds |-> s, fee |-> f] :
     p \in Pubkey_values, m \in AccountMeta_values, d \in Data_values,
     s \in Seeds_values, f \in Fee_values}
  \cup {[kind |-> "NeonTransfer", source |-> a, target |-> b, value |-> v] :
          a \in Address_values, b \in Address_values, v \in U256_values}
  \cup {[kind |-> "NeonWithdraw", source |-> a, value |-> v] :
          a \in Address_values, v \in U256_values}
  \cup {[kind |-> "EvmSetStorage", address |-> a, index |-> i, value |-> v] :
          a \in Address_values, i \in U256_values, v \in Storage_values}
  \cup {[kind |-> "EvmIncrementNonce", address |-> a] : a \in Address_values}
  \cup {[kind |-> "EvmSetCode", address |-> a, code |-> c] :
          a \in Address_values, c \in Code_values}
  \cup {[kind |-> "EvmSelfDestruct", address |-> a] : a \in Address_values}

\* The variants in declaration order: bincode writes the position, JSON the
\* name.
Variants ==
  << "ExternalInstruction", "NeonTransfer", "NeonWithdraw", "EvmSetStorage",
     "EvmIncrementNonce", "EvmSetCode", "EvmSelfDestruct" >>
variant_index(kind) == (CHOOSE i \in 1..Len(Variants) : Variants[i] = kind) - 1

\* Result of reading one item: the value and the input left after it.
Parsed(v, rest) == [ok |-> TRUE, val |-> v, rest |-> rest]
Malformed == [ok |-> FALSE, rest |-> <<>>]

\* try_into::<[u8; 32]>() of a slice or a vector.
try_into_32(bytes) == IF Len(bytes) = 32 THEN Some(bytes) ELSE None

\* serde_bytes_32's visitor.
visit_bytes(value) ==
  IF try_into_32(value) = None THEN [ok |-> FALSE, error |-> "invalid_length"]
  ELSE [ok |-> TRUE, val |-> try_into_32(value)[1]]

visit_seq_not_implemented(seq) == [ok |-> FALSE, error |-> "invalid_type"]

visit_seq(seq) ==
  IF try_into_32(seq) = None
  THEN [ok |-> FALSE, error |-> "Invalid [u8; 32] value"]
  ELSE [ok |-> TRUE, val |-> try_into_32(seq)[1]]

\* ethnum::serde::bytes::le's visitor: 32 bytes, least significant first.
U256_from_le_bytes(bytes) ==
  IF Len(bytes) = 32 THEN [ok |-> TRUE, val |-> from_le_bytes(bytes)]
  ELSE [ok |-> FALSE, error |-> "invalid_length"]

\* ---- bincode ----
bincode_u32(v) == to_le_bytes(v, 4)
bincode_u64(v) == to_le_bytes(v, 8)
bincode_bool(b) == << IF b THEN 1 ELSE 0 >>
bincode_serialize_bytes(bytes) == bincode_u64(Len(bytes)) \o bytes
bincode_AccountMeta(m) ==
  m.pubkey \o bincode_bool(m.is_signer) \o bincode_bool(m.is_writable)
bincode_accounts(ms) ==
  bincode_u64(Len(ms)) \o
  Concat([i \in 1..Len(ms) |-> bincode_AccountMeta(ms[i])])
bincode_seeds(ss) ==
  bincode_u64(Len(ss)) \o
  Concat([i \in 1..Len(ss) |-> bincode_u64(Len(ss[i])) \o ss[i]])
bincode_U256(v) == bincode_serialize_bytes(to_le_bytes(v, 32))

bincode_fields(a) ==
  CASE a.kind = "ExternalInstruction" ->
         a.program_id \o bincode_accounts(a.accounts)
           \o bincode_serialize_bytes(a.data) \o bincode_seeds(a.seeds)
           \o bincode_u64(a.fee)
    [] a.kind = "NeonTransfer" ->
         a.source \o a.target \o bincode_U256(a.value)
    [] a.kind = "NeonWithdraw" -> a.source \o bincode_U256(a.value)
    [] a.kind = "EvmSetStorage" ->
         a.address \o bincode_U256(a.index)
           \o bincode_serialize_bytes(a.value)
    [] a.kind = "EvmIncrementNonce" -> a.address
    [] a.kind = "EvmSetCode" -> a.address \o bincode_serialize_bytes(a.code)
    [] a.kind = "EvmSelfDestruct" -> a.address

bincode_serialize(a) == bincode_u32(variant_index(a.kind)) \o bincode_fields(a)

read_exact(bytes, len) ==
  IF Len(bytes) < len THEN Malformed
  ELSE Parsed(SubSeq(bytes, 1, len), SubSeq(bytes, len + 1, Len(bytes)))

read_int(bytes, width) ==
  LET r == read_exact(bytes, width)
  IN IF r.ok THEN Parsed(from_le_bytes(r.val), r.rest) ELSE Malformed

read_bool(bytes) ==
  LET r == read_exact(bytes, 1)
  IN IF r.ok /\ r.val[1] \in {0, 1} THEN Parsed(r.val[1] = 1, r.rest)
     ELSE Malformed

\* deserialize_bytes: the length, then that many bytes handed to the
\* visitor's visit_bytes.
bincode_deserialize_bytes(bytes) ==
  LET len == read_int(bytes, 8)
  IN IF len.ok THEN read_exact(len.rest, len.val) ELSE Malformed

read_AccountMeta(bytes) ==
  LET k == read_exact(bytes, 32)
      s == read_bool(k.rest)
      w == read_bool(s.rest)
  IN IF k.ok /\ s.ok /\ w.ok
     THEN Parsed([pubkey |-> k.val, is_signer |-> s.val,
                  is_writable |-> w.val], w.rest)
     ELSE Malformed

RECURSIVE read_accounts(_, _)
read_accounts(bytes, count) ==
  IF count = 0 THEN Parsed(<<>>, bytes)
  ELSE LET h == read_AccountMeta(bytes)
           t == read_accounts(h.rest, count - 1)
       IN IF h.ok /\ t.ok THEN Parsed(<< h.val >> \o t.val, t.rest)
          ELSE Malformed

RECURSIVE read_seeds(_, _)
read_seeds(bytes, count) ==
  IF count = 0 THEN Parsed(<<>>, bytes)
  ELSE LET h == bincode_deserialize_bytes(bytes)
           t == read_seeds(h.rest, count - 1)
       IN IF h.ok /\ t.ok THEN Parsed(<< h.val >> \o t.val, t.rest)
          ELSE Malformed

read_U256(bytes) ==
  LET b == bincode_deserialize_bytes(bytes)
  IN IF b.ok /\ U256_from_le_bytes(b.val).ok
     THEN Parsed(U256_from_le_bytes(b.val).val, b.rest) ELSE Malformed

read_bytes_32(bytes) ==
  LET b == bincode_deserialize_bytes(bytes)
  IN IF b.ok /\ visit_bytes(b.val).ok
     THEN Parsed(visit_bytes(b.val).val, b.rest) ELSE Malformed

bincode_variant(kind, bytes) ==
  CASE kind = "ExternalInstruction" ->
         LET p == read_exact(bytes, 32)
             k == read_int(p.rest, 8)
             m == IF k.ok THEN read_accounts(k.rest, k.val) ELSE Malformed
             d == bincode_deserialize_bytes(m.rest)
             c == read_int(d.rest, 8)
             s == IF c.ok THEN read_seeds(c.rest, c.val) ELSE Malformed
             f == read_int(s.rest, 8)
         IN IF p.ok /\ m.ok /\ d.ok /\ s.ok /\ f.ok
            THEN Parsed([kind |-> kind, program_id |-> p.val,
                         accounts |-> m.val, data |-> d.val,
                         seeds |-> s.val, fee |-> f.val], f.rest)
            ELSE Malformed
    [] kind = "NeonTransfer" ->
         LET a == read_exact(bytes, 20)
             b == read_exact(a.rest, 20)
             v == read_U256(b.rest)
         IN IF a.ok /\ b.ok /\ v.ok
            THEN Parsed([kind |-> kind, source |-> a.val, target |-> b.val,
                         value |-> v.val], v.rest)
            ELSE Malformed
    [] kind = "NeonWithdraw" ->
         LET a == read_exact(bytes, 20)
             v == read_U256(a.rest)
         IN IF a.ok /\ v.ok
            THEN Parsed([kind |-> kind, source |-> a.val, value |-> v.val],
                        v.rest)
            ELSE Malformed
    [] kind = "EvmSetStorage" ->
         LET a == read_exact(bytes, 20)
             i == read_U256(a.rest)
             v == read_bytes_32(i.rest)
         IN IF a.ok /\ i.ok /\ v.ok
            THEN Parsed([kind |-> kind, address |-> a.val, index |-> i.val,
                         value |-> v.val], v.rest)
            ELSE Malformed
    [] kind = "EvmSetCode" ->
         LET a == read_exact(bytes, 20)
             c == bincode_deserialize_bytes(a.rest)
         IN IF a.ok /\ c.ok
            THEN Parsed([kind |-> kind, address |-> a.val, code |-> c.val],
                        c.rest)
            ELSE Malformed
    [] kind \in {"EvmIncrementNonce", "EvmSelfDestruct"} ->
         LET a == read_exact(bytes, 20)
         IN IF a.ok THEN Parsed([kind |-> kind, address |-> a.val], a.rest)
            ELSE Malformed

bincode_deserialize(bytes) ==
  LET tag == read_int(bytes, 4)
  IN IF tag.ok /\ tag.val < Len(Variants)
     THEN bincode_variant(Variants[tag.val + 1], tag.rest)
     ELSE Malformed

\* ---- JSON ----
json_number(v) == << "number", v >>
json_bool(b) == << "bool", b >>
json_array(items) == << "array", items >>
json_object(members) == << "object", members >>
json_serialize_bytes(bytes) ==
  json_array([i \in 1..Len(bytes) |-> json_number(bytes[i])])
json_AccountMeta(m) ==
  json_object(<< << "pubkey", json_serialize_bytes(m.pubkey) >>,
                 << "is_signer", json_bool(m.is_signer) >>,
                 << "is_writable", json_bool(m.is_writable) >> >>)
json_U256(v) == json_serialize_bytes(to_le_bytes(v, 32))

json_fields(a) ==
  CASE a.kind = "ExternalInstruction" ->
         << << "program_id", json_serialize_bytes(a.program_id) >>,
            << "accounts",
               json_array([i \in 1..Len(a.accounts) |->
                             json_AccountMeta(a.accounts[i])]) >>,
            << "data", json_serialize_bytes(a.data) >>,
            << "seeds",
               json_array([i \in 1..Len(a.seeds) |->
                             json_serialize_bytes(a.seeds[i])]) >>,
            << "fee", json_number(a.fee) >> >>
    [] a.kind = "NeonTransfer" ->
         << << "source", json_serialize_bytes(a.source) >>,
            << "target", json_serialize_bytes(a.target) >>,
            << "value", json_U256(a.value) >> >>
    [] a.kind = "NeonWithdraw" ->
         << << "source", json_serialize_bytes(a.source) >>,
            << "value", json_U256(a.value) >> >>
    [] a.kind = "EvmSetStorage" ->
         << << "address", json_serialize_bytes(a.address) >>,
            << "index", json_U256(a.index) >>,
            << "value", json_serialize_bytes(a.value) >> >>
    [] a.kind = "EvmSetCode" ->
         << << "address", json_serialize_bytes(a.address) >>,
            << "code", json_serialize_bytes(a.code) >> >>
    [] a.kind \in {"EvmIncrementNonce", "EvmSelfDestruct"} ->
         << << "address", json_serialize_bytes(a.address) >> >>

json_to_string(a) ==
  json_object(<< << a.kind, json_object(json_fields(a)) >> >>)

Invalid == [ok |-> FALSE]
Valid(v) == [ok |-> TRUE, val |-> v]

\* The member of an object with the given key.
member(object, key) ==
  LET at == {i \in 1..Len(object[2]) : object[2][i][1] = key}
  IN IF object[1] # "object" \/ at = {} THEN Invalid
     ELSE Valid(object[2][CHOOSE i \in at : TRUE][2])

\* A sequence of numbers that fit a byte, element by element.
json_byte_seq(v) ==
  IF v[1] = "array"
     /\ \A i \in 1..Len(v[2]) :
          v[2][i][1] = "number" /\ v[2][i][2] \in 0..255
  THEN Valid([i \in 1..Len(v[2]) |-> v[2][i][2]])
  ELSE Invalid

json_fixed(v, len) ==
  IF json_byte_seq(v).ok /\ Len(json_byte_seq(v).val) = len
  THEN json_byte_seq(v) ELSE Invalid

\* deserialize_bytes on an array hands the elements to visit_seq.
json_bytes_32(v) ==
  IF json_byte_seq(v).ok /\ visit_seq(json_byte_seq(v).val).ok
  THEN Valid(visit_seq(json_byte_seq(v).val).val) ELSE Invalid

json_read_U256(v) ==
  IF json_byte_seq(v).ok /\ U256_from_le_bytes(json_byte_seq(v).val).ok
  THEN Valid(U256_from_le_bytes(json_byte_seq(v).val).val) ELSE Invalid

json_u64(v) == IF v[1] = "number" THEN Valid(v[2]) ELSE Invalid
json_read_bool(v) == IF v[1] = "bool" THEN Valid(v[2]) ELSE Invalid

json_read_AccountMeta(v) ==
  LET k == member(v, "pubkey")
      s == member(v, "is_signer")
      w == member(v, "is_writable")
  IN IF k.ok /\ s.ok /\ w.ok /\ json_fixed(k.val, 32).ok
        /\ json_read_bool(s.val).ok /\ json_read_bool(w.val).ok
     THEN Valid([pubkey |-> json_fixed(k.val, 32).val,
                 is_signer |-> json_read_bool(s.val).val,
                 is_writable |-> json_read_bool(w.val).val])
     ELSE Invalid

\* An array read item by item with the given reader.
json_each(v, read(_)) ==
  IF v[1] = "array" /\ \A i \in 1..Len(v[2]) : read(v[2][i]).ok
  THEN Valid([i \in 1..Len(v[2]) |-> read(v[2][i]).val])
  ELSE Invalid

\* One field of a variant's object, read with the given reader.
field(object, key, read(_)) ==
  IF member(object, key).ok THEN read(member(object, key).val) ELSE Invalid

json_address(v) == json_fixed(v, 20)
json_pubkey(v) == json_fixed(v, 32)
json_accounts(v) == json_each(v, json_read_AccountMeta)
json_seeds(v) == json_each(v, json_byte_seq)

json_variant(kind, o) ==
  CASE kind = "ExternalInstruction" ->
         LET p == field(o, "program_id", json_pubkey)
             m == field(o, "accounts", json_accounts)
             d == field(o, "data", json_byte_seq)
             s == field(o, "seeds", json_seeds)
             f == field(o, "fee", json_u64)
         IN IF p.ok /\ m.ok /\ d.ok /\ s.ok /\ f.ok
            THEN Valid([kind |-> kind, program_id |-> p.val,
                        accounts |-> m.val, data |-> d.val,
                        seeds |-> s.val, fee |-> f.val])
            ELSE Invalid
    [] kind = "NeonTransfer" ->
         LET a == field(o, "source", json_address)
             b == field(o, "target", json_address)
             v == field(o, "value", json_read_U256)
         IN IF a.ok /\ b.ok /\ v.ok
            THEN Valid([kind |-> kind, source |-> a.val, target |-> b.val,
                        value |-> v.val])
            ELSE Invalid
    [] kind = "NeonWithdraw" ->
         LET a == field(o, "source", json_address)
             v == field(o, "value", json_read_U256)
         IN IF a.ok /\ v.ok
            THEN Valid([kind |-> kind, source |-> a.val, value |-> v.val])
            ELSE Invalid
    [] kind = "EvmSetStorage" ->
         LET a == field(o, "address", json_address)
             i == field(o, "index", json_read_U256)
             v == field(o, "value", json_bytes_32)
         IN IF a.ok /\ i.ok /\ v.ok
            THEN Valid([kind |-> kind, address |-> a.val, index |-> i.val,
                        value |-> v.val])
            ELSE Invalid
    [] kind = "EvmSetCode" ->
         LET a == field(o, "address", json_address)
             c == field(o, "code", json_byte_seq)
         IN IF a.ok /\ c.ok
            THEN Valid([kind |-> kind, address |-> a.val, code |-> c.val])
            ELSE Invalid
    [] kind \in {"EvmIncrementNonce", "EvmSelfDestruct"} ->
         LET a == field(o, "address", json_address)
         IN IF a.ok THEN Valid([kind |-> kind, address |-> a.val])
            ELSE Invalid

json_from_str(v) ==
  IF v[1] = "object" /\ Len(v[2]) = 1
     /\ \E i \in 1..Len(Variants) : Variants[i] = v[2][1][1]
  THEN json_variant(v[2][1][1], v[2][1][2])
  ELSE Invalid

\* ---- the round trips ----
Formats == {"bincode", "json"}
ByteCounts == {0, 31, 32, 33}

InitAction ==
  /\ HostIdle
  /\ history = NoHistory
  /\ accounts \in {[action |-> a, format |-> "none", wire |-> <<>>] :
                     a \in Action}
  /\ invoked = NoCall

\* bincode::serialize(&action) / serde_json::to_string(&action)
Serialize ==
  /\ accounts.format = "none" /\ invoked = NoCall
  /\ \E f \in Formats :
       accounts' = [accounts EXCEPT
                      !.format = f,
                      !.wire = IF f = "bincode"
                               THEN bincode_serialize(accounts.action)
                               ELSE json_to_string(accounts.action)]
  /\ UNCHANGED << host, history, invoked >>

\* bincode::deserialize(&serialized) / serde_json::from_str(&serialized)
Deserialize ==
  /\ accounts.format # "none" /\ invoked = NoCall
  /\ invoked' =
       [fn |-> "deserialize", format |-> accounts.format,
        ret |-> IF accounts.format = "bincode"
                THEN LET r == bincode_deserialize(accounts.wire)
                     IN IF r.ok THEN Valid(r.val) ELSE Invalid
                ELSE json_from_str(accounts.wire)]
  /\ UNCHANGED << host, history, accounts >>

\* serde_bytes_32::deserialize given a byte string of any length: bincode
\* hands it over whole (visit_bytes), JSON element by element (visit_seq).
serde_bytes_32_deserialize ==
  /\ accounts.format = "none" /\ invoked = NoCall
  /\ \E f \in Formats, len \in ByteCounts :
       invoked' =
         [fn |-> "serde_bytes_32", format |-> f, len |-> len,
          ret |-> IF f = "bincode"
                  THEN LET r == read_bytes_32(
                                  bincode_serialize_bytes(Filled(len, 7)))
                       IN IF r.ok THEN Valid(r.val) ELSE Invalid
                  ELSE json_bytes_32(json_serialize_bytes(Filled(len, 7)))]
  /\ UNCHANGED << host, history, accounts >>

NextAction == Serialize \/ Deserialize \/ serde_bytes_32_deserialize

SpecAction == InitAction /\ [][NextAction]_vars

\* C30: an Action written with bincode or as JSON and read back comes out
\* as the same variant with the same field values, and the reader of a
\* 32-byte storage value accepts a byte string exactly when it holds 32
\* bytes.
C30_action_round_trip ==
  /\ invoked.fn = "deserialize" =>
       invoked.ret.ok /\ invoked.ret.val.kind = accounts.action.kind
         /\ invoked.ret.val = accounts.action
  /\ invoked.fn = "serde_bytes_32" =>
       /\ invoked.ret.ok <=> invoked.len = 32
       /\ invoked.ret.ok => invoked.ret.val = Filled(32, 7)

\* A storage write with a non-zero index and value has gone through JSON
\* and come back.
C30_witness ==
  /\ invoked.fn = "deserialize" /\ invoked.format = "json"
  /\ accounts.action = [kind |-> "EvmSetStorage", address |-> Filled(20, 171),
                        index |-> 258, value |-> Filled(32, 7)]
  /\ invoked.ret = Valid(accounts.action)

\* The same through bincode, and a 33-byte value refused in each encoding.
C30_bincode ==
  /\ invoked.fn = "deserialize" /\ invoked.format = "bincode"
  /\ accounts.action.kind = "ExternalInstruction"
  /\ accounts.action.seeds # <<>> /\ accounts.action.accounts # <<>>
  /\ invoked.ret = Valid(accounts.action)

C30_refused ==
  /\ invoked.fn = "serde_bytes_32" /\ invoked.len = 33
  /\ ~invoked.ret.ok

\* ---------------------------------------------------------------------
\* The first slice of an iterative start instruction.
\* ---------------------------------------------------------------------

\* A start instruction returns to the host.
StartReturns == mode = "exec" /\ instr \in Starts /\ mode' = "idle"

\* The slice ended because the budget was used up, the execution not over.
BudgetExhausted == result.res = "Running" /\ steps >= n

\* C31: a start instruction leaves a snapshot and blocked accounts only when
\* its first slice ended by using up the step budget; when the execution
\* terminated within the slice the instruction fails, the storage account
\* stays empty, nothing is blocked, no host account is changed and nothing
\* is emitted.
C31_first_slice_must_not_terminate ==
  [][StartReturns =>
       /\ (storageAcct' # <<>> \/ blocked') =>
            BudgetExhausted /\ status'.result = "Ok"
       /\ result.res = "Err" =>
            /\ status'.result \in {"InvalidInstructionData", "Panic"}
            /\ storageAcct' = <<>> /\ ~blocked'
            /\ emitted' = <<>>
            /\ UNCHANGED << code, nonce, storage >>]_vars

\* A call started iteratively has ended within its first slice: the
\* instruction failed and left nothing.
C31_witness ==
  /\ mode = "idle"
  /\ status.instr = "PartialCallFromRawEthereumTX"
  /\ status.result = "InvalidInstructionData"
  /\ storageAcct = <<>> /\ ~blocked /\ emitted = <<>>

\* A creation started iteratively has ended within its first slice.
C31_create ==
  /\ mode = "idle" /\ status.instr = CreateStart /\ status.result = "Panic"
  /\ storageAcct = <<>> /\ ~blocked /\ emitted = <<>>

\* ---------------------------------------------------------------------
\* The caller's nonce increment and the exit of the initial frame.
\* ---------------------------------------------------------------------

\* The initial frame has exited with a Revert, an Error or a Fatal reason.
InitialFrameFailed ==
  /\ mode = "exec" /\ result.res = "Err" /\ runtime = <<>>
  /\ ~is_succeed(result.reason)

\* C32: once the initial frame has exited with Revert, Error or Fatal, the
\* substate still holds the increment of the caller's nonce made when the
\* transaction started, whether it was started by call_begin or by
\* create_begin.
C32_nonce_increment_survives ==
  InitialFrameFailed => state_nonce(substate, Caller) = nonce[Caller] + 1

\* The same for the transactions started by call_begin alone.
C32_after_call_begin ==
  InitialFrameFailed /\ instr \in {"CallFromRawEthereumTX"}
    => state_nonce(substate, Caller) = nonce[Caller] + 1

\* A transaction started by call_begin has failed and kept the increment.
C32_call_kept ==
  /\ InitialFrameFailed /\ instr = "CallFromRawEthereumTX"
  /\ state_nonce(substate, Caller) = nonce[Caller] + 1

\* A transaction started by create_begin has failed and lost it.
C32_create_lost ==
  /\ InitialFrameFailed /\ instr = "Finalize"
  /\ state_nonce(substate, Caller) = nonce[Caller]

\* ---------------------------------------------------------------------
\* handler.create on its own: a frame of the contract stands at a CREATE
\* opcode, over a substate of any depth that may already hold an increment
\* of the contract's nonce, and the target address may be taken.
\* ---------------------------------------------------------------------

RECURSIVE Entered(_, _)
Entered(sub, levels) ==
  IF levels = 0 THEN sub ELSE Entered(enter(sub, FALSE), levels - 1)

\* Programs that begin with CREATE.
Creators == {5, 6}

InitCreate ==
  /\ \E pre \in CreatedCodes, used \in CreatedNonces :
       /\ pre = 0 \/ used = 0
       /\ code = [a \in Addr |-> IF a \in Created THEN pre ELSE 0]
       /\ nonce = [a \in Addr |-> IF a \in Created THEN used ELSE 0]
  /\ storage = [a \in Addr |-> 0]
  /\ storageAcct = <<>> /\ blocked = FALSE /\ other = "Empty"
  /\ \E p \in Creators :
       runtime = << Runtime_new(p, [address |-> Contract, caller |-> Caller],
                                "Call") >>
  /\ \E levels \in 1..(call_stack_limit + 2), earlier \in BOOLEAN :
       substate = Entered(IF earlier THEN inc_nonce(substate_new, Contract)
                          ELSE substate_new, levels)
  /\ mode = "exec" /\ instr = "CallFromRawEthereumTX"
  /\ n = U64_MAX /\ steps = 0 /\ result = Running
  /\ ev = NoEv /\ emitted = <<>>
  /\ status = Status("CallFromRawEthereumTX", "pending", "none")
  /\ Unused

\* What is known before the call: the creator, its nonce, the address that
\* nonce gives and whether that address is taken.
Before(fn) ==
  LET caller == TopFrame(Machine(runtime, substate)).address
      before == state_nonce(substate, caller)
      target == CreateAddress(caller, before)
  IN [fn |-> fn, caller |-> caller, nonce |-> before, target |-> target,
      taken |-> state_code(substate, target) # 0
                  \/ state_nonce(substate, target) > 0,
      too_deep |-> TooDeep(substate)]

\* handler.create called for the frame's CREATE opcode.
Handler_create ==
  /\ invoked = NoCall
  /\ LET fr == TopFrame(Machine(runtime, substate))
         c == create(substate, fr.address, CurOp(fr).a)
     IN /\ CurOp(fr).op = "CREATE"
        /\ substate' = c.sub
        /\ invoked' = [Before("create") EXCEPT !.fn = "create"]
        /\ accounts' = [capture |-> c.capture, reason |-> c.reason,
                        interrupt |-> c.interrupt]
  /\ UNCHANGED << code, nonce, storage, storageAcct, blocked, other, runtime,
                  mode, instr, n, steps, result, ev, emitted, status, history >>

\* The CREATE opcode as the frame executes it.
Opcode_CREATE ==
  /\ invoked = NoCall
  /\ LET fr == TopFrame(Machine(runtime, substate))
         t == StepOp(fr, substate)
     IN /\ CurOp(fr).op = "CREATE"
        /\ runtime' = << t.fr >>
        /\ substate' = t.sub
        /\ invoked' = Before("CREATE")
        /\ accounts' = [kind |-> t.kind, interrupt |-> t.interrupt]
  /\ UNCHANGED << code, nonce, storage, storageAcct, blocked, other, mode,
                  instr, n, steps, result, ev, emitted, status, history >>

NextCreate == Handler_create \/ Opcode_CREATE

SpecCreate == InitCreate /\ [][NextCreate]_vars

\* C33: a handler.create that passes the depth check has incremented the
\* creator's nonce exactly once, whether it answers with the create trap or
\* with CreateCollision; the address is the one given by the nonce before
\* the increment, and the collision tests are made on that address; a frame
\* whose CREATE collided has the zero address on its stack and goes on.
C33_create_increments_once ==
  /\ invoked.fn = "create" /\ ~invoked.too_deep =>
       /\ state_nonce(substate, invoked.caller) = invoked.nonce + 1
       /\ accounts.capture = "Exit" <=> invoked.taken
       /\ accounts.capture = "Exit" => accounts.reason = "CreateCollision"
       /\ accounts.capture = "Trap" =>
            /\ accounts.reason = "Create"
            /\ accounts.interrupt.address = invoked.target
            /\ accounts.interrupt.caller = invoked.caller
  /\ invoked.fn = "CREATE" /\ ~invoked.too_deep /\ invoked.taken =>
       /\ accounts.kind = "next"
       /\ runtime[1].stack = << ZeroAddress >>
       /\ runtime[1].pc = 2
       /\ state_nonce(substate, invoked.caller) = invoked.nonce + 1

\* A create made when the creator's nonce had already been incremented has
\* collided with a taken address, and has incremented again.
C33_witness ==
  /\ invoked.fn = "create" /\ ~invoked.too_deep /\ invoked.nonce = 1
  /\ accounts.reason = "CreateCollision"
  /\ state_nonce(substate, invoked.caller) = 2

\* A create that trapped, and a frame that went on after a collision.
C33_trapped ==
  /\ invoked.fn = "create" /\ accounts.capture = "Trap"
  /\ accounts.interrupt.address = CreateAddress(Contract, 1)
  /\ state_nonce(substate, Contract) = 2

C33_frame_goes_on ==
  /\ invoked.fn = "CREATE" /\ invoked.taken /\ ~invoked.too_deep
  /\ runtime[1].stack = << ZeroAddress >> /\ accounts.kind = "next"

\* ---------------------------------------------------------------------
\* A signed transaction is spent once it has succeeded or been cancelled.
\* ---------------------------------------------------------------------

\* The nonce of the signed transaction in progress: the one the running
\* one-shot instruction carries, or the one kept in the storage account's
\* header when the iterative transaction was started.
TrxNonce ==
  IF mode = "exec" /\ instr = "CallFromRawEthereumTX" THEN status.trx.nonce
  ELSE caller_and_nonce(storageAcct)[2]

\* The signed transaction ends with a Succeed reason, in the one-shot
\* instruction or in a terminating Continue.
TerminalSuccess ==
  /\ mode = "exec" /\ mode' = "idle"
  /\ instr \in {"CallFromRawEthereumTX", "Continue"}
  /\ result.res = "Err" /\ is_succeed(result.reason)

\* The stored transaction count never goes down.
CountGrows == nonce'[Caller] >= nonce[Caller]

\* C34: once a signed transaction has succeeded or has been cancelled, the
\* caller's stored transaction count differs from the transaction's nonce
\* for good, so that check_ethereum_authority refuses every later start
\* instruction carrying it.
C34_spent_transaction_is_refused ==
  [][/\ CountGrows
     /\ TerminalSuccess => nonce'[Caller] > TrxNonce
     /\ AcceptedCancel => nonce'[Caller] > TrxNonce]_vars

\* The same for the transactions that succeeded alone.
C34_after_success ==
  [][CountGrows /\ (TerminalSuccess => nonce'[Caller] > TrxNonce)]_vars

\* ---------------------------------------------------------------------
\* What a terminated transaction emits.
\* ---------------------------------------------------------------------

\* The execution is over (the frame stack emptied, or a Fatal reason came
\* up) and the instruction that ran it returns to the host.
Terminates ==
  /\ mode = "exec" /\ mode' = "idle"
  /\ instr \in OneShot \cup {"Continue"}
  /\ result.res = "Err"

\* The logs the transaction kept, oldest first.
KeptLogs == SelectSeq(Journal(substate), LAMBDA e : e.k = "log")

OnReturns(es) == {i \in 1..Len(es) : es[i].name = "OnReturn"}

C35_success ==
  /\ mode = "idle" /\ is_succeed(status.reason)
  /\ Len(emitted) = 2
  /\ emitted[1].name = "OnEvent" /\ emitted[2].name = "OnReturn"
  /\ emitted[2].a = exit_status(status.reason)

\* ---------------------------------------------------------------------
\* Cancel and the caller account it is given.  The account's data is its
\* tag, then for an Account record its ether address and its trx_count.
\* ---------------------------------------------------------------------

\* The Cancel handler as it would be without the trx_count test.
EvmInstruction_Cancel_without_count_test(acct, held, caller_data) ==
  IF acct = <<>> THEN "InvalidAccountData"
  ELSE IF check_accounts(TRUE, held) # "Ok" THEN "InvalidAccountData"
  ELSE IF AccountData_unpack(caller_data).res # "Ok"
  THEN AccountData_unpack(caller_data).res
  ELSE IF AccountData_unpack(caller_data).kind # "Account"
  THEN "InvalidAccountData"
  ELSE IF caller_data[2] # caller_and_nonce(acct)[1]
  THEN "InvalidAccountData"
  ELSE "Ok"

\* The Cancel handler up to its last test: restore, check_accounts, unpack
\* of the caller account, then the comparisons with the snapshot's header.
EvmInstruction_Cancel(acct, held, caller_data) ==
  IF acct = <<>> THEN "InvalidAccountData"
  ELSE IF check_accounts(TRUE, held) # "Ok" THEN "InvalidAccountData"
  ELSE IF AccountData_unpack(caller_data).res # "Ok"
  THEN AccountData_unpack(caller_data).res
  ELSE IF AccountData_unpack(caller_data).kind # "Account"
  THEN "InvalidAccountData"
  ELSE IF caller_data[2] # caller_and_nonce(acct)[1]
  THEN "InvalidAccountData"
  ELSE IF caller_data[3] # caller_and_nonce(acct)[2]
  THEN "InvalidAccountData"
  ELSE "Ok"

\* A transaction is in progress: a snapshot taken right after call_begin is
\* in the storage account and the accounts are blocked.  The account handed
\* to Cancel as the caller's is any record; when it is the caller's own
\* Account record its trx_count is the stored one.
InitCancel ==
  /\ \E c \in {1, 2} : code = [a \in Addr |-> IF a = Contract THEN c ELSE 0]
  /\ nonce \in {[a \in Addr |-> IF a = Caller THEN k ELSE 0] :
                  k \in 0..MaxTrxCount}
  /\ storage = [a \in Addr |-> 0]
  /\ \E started_at \in 0..MaxTrxCount :
       storageAcct = save_into(call_begin(Machine_new, Caller, Contract).m,
                               StorageAccount_new(Caller, started_at))
  /\ blocked = TRUE /\ other = "Empty"
  /\ runtime = <<>> /\ substate = substate_new
  /\ mode = "idle" /\ instr = "none" /\ n = 0 /\ steps = 0
  /\ result = NotRunning /\ ev = NoEv /\ emitted = <<>>
  /\ status = Status("PartialCallFromRawEthereumTX", "Ok", "none")
  /\ history = NoHistory
  /\ \E tag \in Tags, ether \in {Caller, Callee}, count \in 0..MaxTrxCount :
       /\ tag = "Account" /\ ether = Caller => count = nonce[Caller]
       /\ accounts = [caller_info |-> << tag, ether, count >>]
  /\ invoked = NoCall

CancelGiven ==
  /\ mode = "idle" /\ invoked = NoCall
  /\ LET r == EvmInstruction_Cancel(storageAcct, FALSE, accounts.caller_info)
     IN /\ invoked' = [fn |-> "Cancel", ret |-> r, snapshot |-> storageAcct,
                       caller_info |-> accounts.caller_info,
                       trx_count |-> nonce[Caller]]
        /\ status' = Status("Cancel", r, "none")
        /\ IF r = "Ok" THEN storageAcct' = <<>> /\ blocked' = FALSE
           ELSE UNCHANGED << storageAcct, blocked >>
  /\ emitted' = <<>>
  /\ UNCHANGED << code, nonce, storage, other, runtime, substate, mode, instr,
                  n, steps, result, ev, history, accounts >>

SpecCancel == InitCancel /\ [][CancelGiven]_vars

\* The account given as the caller's does not match the snapshot.
Mismatch ==
  \/ invoked.caller_info[1] # "Account"
  \/ invoked.caller_info[2] # caller_and_nonce(invoked.snapshot)[1]
  \/ invoked.caller_info[3] # caller_and_nonce(invoked.snapshot)[2]

\* C36: a Cancel given a caller account that is no Account record, or whose
\* ether address is not the snapshot's caller, or whose trx_count is not the
\* snapshot's nonce, returns InvalidAccountData and leaves the transaction
\* count, the blocking and the snapshot as they were.
C36_cancel_refused_changes_nothing ==
  invoked.fn = "Cancel" /\ Mismatch =>
    /\ invoked.ret = "InvalidAccountData"
    /\ status = Status("Cancel", "InvalidAccountData", "none")
    /\ storageAcct = invoked.snapshot /\ storageAcct # <<>>
    /\ blocked
    /\ nonce[Caller] = invoked.trx_count
    /\ accounts.caller_info = invoked.caller_info

\* The caller's own record, whose trx_count has moved on since the
\* transaction started, was given and refused.
C36_witness ==
  /\ invoked.fn = "Cancel"
  /\ invoked.caller_info = << "Account", Caller, 1 >>
  /\ caller_and_nonce(invoked.snapshot) = << Caller, 0 >>
  /\ invoked.ret = "InvalidAccountData" /\ blocked /\ storageAcct # <<>>

\* A Contract record, and a record of another address, refused; the
\* matching record accepted.
C36_not_an_account ==
  /\ invoked.fn = "Cancel" /\ invoked.caller_info[1] = "Contract"
  /\ invoked.ret = "InvalidAccountData" /\ blocked

C36_another_address ==
  /\ invoked.fn = "Cancel" /\ invoked.caller_info[1] = "Account"
  /\ invoked.caller_info[2] = Callee
  /\ invoked.caller_info[3] = caller_and_nonce(invoked.snapshot)[2]
  /\ invoked.ret = "InvalidAccountData" /\ blocked

C36_accepted ==
  /\ invoked.fn = "Cancel" /\ ~Mismatch /\ invoked.ret = "Ok"
  /\ ~blocked /\ storageAcct = <<>>

\* ---------------------------------------------------------------------
\* execute_n_steps on a Machine without frames: a new Machine (the root
\* log alone), or one left by a create_begin that failed (one log entered,
\* holding what handler.create journaled).
\* ---------------------------------------------------------------------

Budgets == 1..MaxStepCount \cup {U64_MAX}

InitEmpty ==
  /\ \E c \in {1, 2} : code = [a \in Addr |-> IF a = Contract THEN c ELSE 0]
  /\ nonce \in {[a \in Addr |-> IF a = Caller THEN k ELSE 0] :
                  k \in 0..MaxTrxCount}
  /\ storage = [a \in Addr |-> 0]
  /\ storageAcct = <<>> /\ blocked = FALSE /\ other = "Empty"
  /\ runtime = <<>>
  /\ \E init_code \in InitCodes :
       substate \in {substate_new,
                     create(enter(substate_new, FALSE), Caller, init_code).sub,
                     enter(substate_new, FALSE)}
  /\ mode = "exec"
  /\ instr \in OneShot \cup {"Continue"}
  /\ n \in Budgets
  /\ steps = 0 /\ result = Running /\ ev = NoEv /\ emitted = <<>>
  /\ status = Status(instr, "pending", "none")
  /\ Unused

SpecEmpty == InitEmpty /\ [][StepExit]_vars

C37_with_a_log_entered ==
  result.res # "Running" /\ ev.exits = << "exit_discard" >> /\ ev.popped = 0
    /\ result.reason # "StackUnderflow" =>
    /\ result.res = "Err" /\ result.data = 0
    /\ result.reason = "NotSupported"
    /\ runtime = <<>>
    /\ depth(substate) = Len(runtime)

\* A new Machine was run and answered with the substate's error.
C37_new_machine ==
  /\ result.res = "Err" /\ result.reason = "StackUnderflow"
  /\ runtime = <<>> /\ substate = substate_new

\* A Machine left by a failed create_begin was run.
C37_after_create_begin ==
  /\ result.res = "Err" /\ result.reason = "NotSupported"
  /\ runtime = <<>> /\ substate = substate_new

\* ------------------------------- ClickHouseDb::get_branch_slots (tracer, cli)
MaxSlot == 4

Slots == 1..MaxSlot

\* What the query of update_slot answers: one row for each slot (distinct on
\* slot), newest slot first (ORDER BY slot DESC), none older than the newest
\* rooted slot, so that the last row is the rooted one; no row at all when no
\* slot is rooted.  A slot's parent is an older slot.
SlotParent(present, parent) ==
  LET count == Cardinality(present)
      at(i) == CHOOSE s \in present :
                 Cardinality({t \in present : t > s}) = i - 1
  IN [i \in 1..count |-> [slot |-> at(i), parent |-> parent[at(i)]]]

Rows ==
  {SlotParent(present, parent) :
     present \in SUBSET Slots,
     parent \in {f \in [Slots -> 0..(MaxSlot - 1)] : \A s \in Slots : f[s] < s}}

\* The answers of the second query, of the rooted rows of a slot: their
\* count, or -1 when the query fails.
Counts == {-1, 0, 1}

Db(message) == [res |-> "Err", err |-> message]

\* The loop over the rows but the last, lines 124-132: `branch.last().unwrap()`
\* is reached with an empty branch when a row of another slot comes before
\* the row of the requested slot, and panics.
RECURSIVE branch_loop(_, _, _, _)
branch_loop(rows, i, slot, branch) ==
  IF i > Len(rows) THEN [panic |-> FALSE, branch |-> branch]
  ELSE LET row == rows[i]
       IN IF branch = <<>> /\ row.slot = slot
            THEN branch_loop(rows, i + 1, slot, Append(branch, row))
          ELSE IF branch = <<>>
            THEN [panic |-> TRUE, branch |-> branch]
          ELSE IF row.slot = branch[Len(branch)].parent
            THEN branch_loop(rows, i + 1, slot, Append(branch, row))
          ELSE branch_loop(rows, i + 1, slot, branch)

get_branch_slots(fetched, slot, count) ==
  IF fetched = <<>> THEN Db("Rooted slot not found")
  ELSE
    LET root == fetched[Len(fetched)]
        rows == SubSeq(fetched, 1, Len(fetched) - 1)
    IN CASE slot < root.slot ->
              IF count < 0 THEN Db("query")
              ELSE IF count = 0
                THEN Db("requested slot is not on working branch")
              ELSE [res |-> "Ok", root |-> root.slot, branch |-> <<>>]
         [] slot = root.slot ->
              [res |-> "Ok", root |-> root.slot, branch |-> <<>>]
         [] slot > root.slot ->
              LET walked == branch_loop(rows, 1, slot, <<>>)
                  branch == walked.branch
              IN IF walked.panic THEN [res |-> "panic"]
                 ELSE IF branch = <<>> THEN Db("requested slot not found")
                 ELSE IF branch[Len(branch)].parent = root.slot
                   THEN [res |-> "Ok", root |-> root.slot,
                         branch |-> [k \in 1..Len(branch) |-> branch[k].slot]]
                 ELSE Db("requested slot is not on working branch")

InitBranch ==
  /\ HostIdle
  /\ history = NoHistory
  /\ \E fetched \in Rows, slot \in Slots, count \in Counts :
       accounts = [rows |-> fetched, slot |-> slot, count |-> count]
  /\ invoked = NoCall

GetBranchSlots ==
  /\ invoked = NoCall
  /\ invoked' = [fn |-> "get_branch_slots",
                 ret |-> get_branch_slots(accounts.rows, accounts.slot,
                                          accounts.count)]
  /\ UNCHANGED << host, history, accounts >>

SpecBranch == InitBranch /\ [][GetBranchSlots]_vars

\* The rooted slot of the rows handed over, 0 without rows.
Rooted ==
  IF accounts.rows = <<>> THEN 0
  ELSE accounts.rows[Len(accounts.rows)].slot

\* get_branch_slots was called with a slot newer than the rooted one.
AboveRoot ==
  /\ invoked.fn = "get_branch_slots"
  /\ accounts.rows # <<>>
  /\ accounts.slot > Rooted

ParentOf(s) ==
  LET found == {i \in 1..Len(accounts.rows) : accounts.rows[i].slot = s}
  IN IF found = {} THEN -1 ELSE accounts.rows[CHOOSE i \in found : TRUE].parent

\* branch starts with the requested slot, goes from each slot to its recorded
\* parent, and the parent of its last slot is the rooted slot.
IsParentChain(branch) ==
  /\ branch # <<>>
  /\ branch[1] = accounts.slot
  /\ \A k \in 2..Len(branch) : branch[k] = ParentOf(branch[k - 1])
  /\ ParentOf(branch[Len(branch)]) = Rooted

\* The rows hold a parent chain from the requested slot to the rooted slot.
HasParentChain ==
  \E len \in 1..MaxSlot : \E branch \in [1..len -> Slots] :
    IsParentChain(branch)

\* C38: for a requested slot above the rooted slot, get_branch_slots answers
\* Ok((root, branch)) only with the parent chain from the requested slot to
\* the rooted slot, and for rows without such a chain (requested slot absent,
\* chain not reaching the root) it answers an error value, never aborting.
C38_chain_or_error_value ==
  AboveRoot =>
    /\ invoked.ret.res = "Ok" =>
         invoked.ret.root = Rooted /\ IsParentChain(invoked.ret.branch)
    /\ ~HasParentChain => invoked.ret.res = "Err"
    /\ invoked.ret.res # "panic"

\* What does hold: an Ok answer carries the parent chain, and an error value
\* is answered only for rows without one.
C38_ok_is_the_chain ==
  AboveRoot =>
    /\ invoked.ret.res = "Ok" =>
         invoked.ret.root = Rooted /\ IsParentChain(invoked.ret.branch)
    /\ invoked.ret.res = "Err" => ~HasParentChain

\* The requested slot is absent and a newer slot is recorded: aborted.
C38_absent_aborts ==
  /\ AboveRoot /\ ParentOf(accounts.slot) = -1
  /\ invoked.ret.res = "panic"

\* The chain exists, below a newer slot: aborted as well.
C38_chain_aborts ==
  /\ AboveRoot /\ HasParentChain
  /\ invoked.ret.res = "panic"

\* The chain is answered.
C38_chain_answered ==
  /\ AboveRoot /\ invoked.ret.res = "Ok" /\ Len(invoked.ret.branch) > 1

\* ------------------------------------------- BumpAllocator (entrypoint.rs)
\* The addresses are scaled down, keeping their layout: a usize of 12 bits,
\* the heap at 0x300 (for 0x3_0000_0000) and 64 bytes long (for 1024*1024);
\* the position word is as wide as a pointer, 8 bytes.
usize_BITS == 12

USIZE_MAX == 2 ^ usize_BITS - 1

ISIZE_MAX == 2 ^ (usize_BITS - 1) - 1

HEAP_START_ADDRESS == 768

HEAP_LENGTH == 64

size_of_pointer == 8

TOP_ADDRESS == HEAP_START_ADDRESS + HEAP_LENGTH

BOTTOM_ADDRESS == HEAP_START_ADDRESS + size_of_pointer

\* Calls of alloc within one host invocation.
MaxAllocs == 3

\* std::alloc::Layout: align is a power of two and size, rounded up to
\* align, does not exceed isize::MAX.
Layouts ==
  {l \in [size : {0, 1, 8, 20, 56, 57, 1000}, align : {1, 8, 1024}] :
     l.size + (l.align - 1) <= ISIZE_MAX}

saturating_sub(a, b) == IF b > a THEN 0 ELSE a - b

wrapping_sub(a, b) == (a - b) % (USIZE_MAX + 1)

\* `!a` and `a & b` on usize.
BitNot(a) == USIZE_MAX - a

RECURSIVE BitAnd(_, _)
BitAnd(a, b) ==
  IF a = 0 \/ b = 0 THEN 0
  ELSE (a % 2) * (b % 2) + 2 * BitAnd(a \div 2, b \div 2)

occupied(at) == IF at = 0 THEN 0 ELSE TOP_ADDRESS - at

alloc_with_wrapping_sub(at, layout) ==
  LET first == IF at = 0 THEN TOP_ADDRESS ELSE at
      lowered == wrapping_sub(first, layout.size)
      pos == BitAnd(lowered, BitNot(saturating_sub(layout.align, 1)))
  IN IF pos < BOTTOM_ADDRESS THEN [ptr |-> 0, at |-> at]
     ELSE [ptr |-> pos, at |-> pos]

\* alloc over the position word `at` (*POS_PTR): the pointer returned, 0 for
\* null, and the position word afterwards.
alloc(at, layout) ==
  LET first == IF at = 0 THEN TOP_ADDRESS ELSE at
      lowered == saturating_sub(first, layout.size)
      pos == BitAnd(lowered, BitNot(saturating_sub(layout.align, 1)))
  IN IF pos < BOTTOM_ADDRESS THEN [ptr |-> 0, at |-> at]
     ELSE [ptr |-> pos, at |-> pos]

\* The heap is zeroed when the host invokes the program: no position yet.
InitAlloc ==
  /\ HostIdle
  /\ accounts = <<>>
  /\ history = [heap |-> 0, allocated |-> <<>>, calls |-> 0]
  /\ invoked = NoCall

Alloc ==
  /\ history.calls < MaxAllocs
  /\ \E layout \in Layouts :
       LET r == alloc(history.heap, layout)
       IN /\ invoked' = [fn |-> "alloc", layout |-> layout, ret |-> r.ptr,
                         before |-> history.heap]
          /\ history' =
               [heap |-> r.at,
                allocated |->
                  IF r.ptr = 0 THEN history.allocated
                  ELSE Append(history.allocated,
                              [ptr |-> r.ptr, layout |-> layout]),
                calls |-> history.calls + 1]
  /\ UNCHANGED << host, accounts >>

\* dealloc frees nothing.
Dealloc ==
  /\ \E i \in 1..Len(history.allocated) :
       /\ invoked # [fn |-> "dealloc", ptr |-> history.allocated[i].ptr,
                     before |-> history.heap]
       /\ invoked' = [fn |-> "dealloc", ptr |-> history.allocated[i].ptr,
                      before |-> history.heap]
  /\ UNCHANGED << host, accounts, history >>

NextAlloc == Alloc \/ Dealloc

SpecAlloc == InitAlloc /\ [][NextAlloc]_vars

\* The bytes of an allocation.
Region(a) == a.ptr..(a.ptr + a.layout.size - 1)

\* Where the next allocation ends: the position, the top before any.
Position(at) == IF at = 0 THEN TOP_ADDRESS ELSE at

\* There is room for the layout below the position: an aligned address
\* above the position word with size bytes up to the position.
Fits(at, layout) ==
  \E a \in BOTTOM_ADDRESS..Position(at) :
    a % layout.align = 0 /\ a + layout.size <= Position(at)

\* C39: after any sequence of alloc calls, every pointer returned is aligned
\* as requested and its region lies inside the heap above the position
\* word; the regions of different allocations do not overlap; the position
\* only moves downward, occupied() never decreasing; and an alloc that does
\* not fit returns null and leaves the position unchanged.
C39_bump_allocator ==
  /\ \A i \in 1..Len(history.allocated) :
       LET a == history.allocated[i]
       IN /\ a.ptr % a.layout.align = 0
          /\ BOTTOM_ADDRESS <= a.ptr
          /\ a.ptr + a.layout.size <= TOP_ADDRESS
          /\ \A j \in 1..Len(history.allocated) :
               i # j => Region(a) \cap Region(history.allocated[j]) = {}
  /\ invoked.fn \in {"alloc", "dealloc"} =>
       /\ Position(history.heap) <= Position(invoked.before)
       /\ occupied(history.heap) >= occupied(invoked.before)
  /\ invoked.fn = "alloc" /\ ~Fits(invoked.before, invoked.layout) =>
       invoked.ret = 0 /\ history.heap = invoked.before
  /\ invoked.fn = "alloc" /\ invoked.ret = 0 => history.heap = invoked.before

\* Three allocations were made, the last one after an alloc that did not fit.
C39_witness ==
  /\ Len(history.allocated) = 2
  /\ history.calls = 3
  /\ invoked.fn = "alloc" /\ invoked.ret # 0 /\ invoked.layout.size > 0
  /\ history.allocated[1].layout.size > 0

\* An alloc larger than the address of the heap returned null.
C39_saturated ==
  /\ invoked.fn = "alloc" /\ invoked.layout.size > TOP_ADDRESS
  /\ invoked.ret = 0 /\ history.heap # 0

\* The heap is full to the position word.
C39_full ==
  /\ history.heap = BOTTOM_ADDRESS
  /\ invoked.fn = "alloc" /\ invoked.ret = 0 /\ invoked.layout.size = 1

\* The alignment moved the pointer below the end of the room asked for.
C39_aligned_down ==
  /\ invoked.fn = "alloc" /\ invoked.ret # 0
  /\ invoked.ret + invoked.layout.size < Position(invoked.before)

====
